---- MODULE Spec2Model ----
(***************************************************************************)
(* A model of the v9web test app: the settings layer (SettingValue,        *)
(* Settings, the SettingsStorage backends, the browser settings panel),    *)
(* the Firestore instance cache of firestore_helper.ts, the cancellation   *)
(* token, the browser shell that runs the scenario of run_the_test.ts, the *)
(* node entry point and the batched writes of util.ts.                     *)
(*                                                                         *)
(*   Spec          one SettingValue object driven through its public API   *)
(*   SpecSettings  the Settings collection (four members) and saveAll()    *)
(*   SpecBrowser   the browser settings panel and its callbacks            *)
(*   SpecCache     one FirebaseObjectCache used by several callers         *)
(*   SpecHelper    setHasher, setBase64Encode and getFirestore             *)
(*   SpecName      FirebaseObjectCacheKey.appName over sample keys         *)
(*   SpecShell     the Run Test / Cancel Test buttons, go() and the runs   *)
(*   SpecRequests  getFirestore over sample configurations, SDK failures   *)
(*   SpecNode      the node entry point: parseArgs and go()                *)
(*   SpecBatches   performWritesInBatches and the commits it issues        *)
(***************************************************************************)
EXTENDS Integers, Sequences, FiniteSets, TLC

VARIABLES
    storage,                        \* the SettingsStorage backend: key -> string | null
    settings,                       \* the SettingValue objects under operation (Settings.all)
    fresh,                          \* SettingValue objects constructed later over the same storage
    debugLogEnabledSettingApplied,  \* module-level flag of settings.ts
    logLevel,                       \* the level last given to the SDK's setLogLevel()
    lastCall,                       \* the operation that produced this state
    storageCalls,                   \* the calls that operation made on the storage backend
    returned,                       \* what that operation returned (saveAll: the saved keys)
    hash,                           \* window.location.hash
    chkDebugLogging,                \* the "debug logging" checkbox's checked state
    hasher,                         \* firestore_helper.ts: the installed Hasher, or null
    base64Encode,                   \* firestore_helper.ts: the installed encoder, or null
    firebaseAppCache,               \* Map of canonical key string -> FirebaseAppCacheEntry
    firestoreInstanceCache,         \* Map of canonical key string -> FirestoreCacheEntry
    sdk,                            \* the Firebase SDK: the apps and Firestore objects made
    callers,                        \* the callers of a cache or of getFirestore, and what each got
    outcome,                        \* what the last helper or cache call returned or threw
    cancellationTokenSource,        \* MainUiCallbacksImpl's current source, or 0 for null
    sources,                        \* the CancellationTokenSource objects created so far
    runs,                           \* the invocations of go() so far
    runTestButtonEnabled,           \* !btnRunTest.disabled
    cancelTestButtonEnabled,        \* !btnCancelTest.disabled
    logLines,                       \* the lines appended to the log output
    batching                        \* util.ts: the last performWritesInBatches call

settingsVars == <<storage, settings, fresh, debugLogEnabledSettingApplied,
                  logLevel, lastCall, storageCalls, returned, hash,
                  chkDebugLogging>>

helperVars == <<hasher, base64Encode, firebaseAppCache, firestoreInstanceCache,
                sdk, callers, outcome>>

shellVars == <<cancellationTokenSource, sources, runs, runTestButtonEnabled,
               cancelTestButtonEnabled, logLines>>

utilVars == <<batching>>

vars == <<settingsVars, helperVars, shellVars, utilVars>>

-----------------------------------------------------------------------------
(* Bounds *)

\* How many further texts the model stages in a text setting (project ID,
\* API key) when it operates one SettingValue.
MaxStrings == 1

\* How many of the four hosts the model selects in the Settings collection.
MaxHosts == 2

-----------------------------------------------------------------------------
(* JavaScript values.  Every value is a record of one shape so that values   *)
(* of different JavaScript types can be compared; `kind` is what `typeof`    *)
(* (or `=== null`, or `=== RESET_TOKEN`) observes.                           *)

Null == [kind |-> "null", s |-> "", b |-> FALSE]

RESET_TOKEN == [kind |-> "symbol", s |-> "RESET_TOKEN", b |-> FALSE]

Str(x) == [kind |-> "string", s |-> x, b |-> FALSE]

Bool(x) == [kind |-> "boolean", s |-> "", b |-> x]

\* The outcome of a call that throws.
Thrown == [kind |-> "error", s |-> "", b |-> FALSE]

typeof(v) == v.kind

-----------------------------------------------------------------------------
(* firebase_config.ts *)

PROJECT_ID == Str("REPLACE_WITH_YOUR_PROJECT_ID")

API_KEY == Str("REPLACE_WITH_YOUR_API_KEY")

HOST == Str("prod")

FirestoreHost == {"prod", "emulator", "nightly", "qa"}

-----------------------------------------------------------------------------
(* The Settings constructor: the four SettingValue objects, in the order of *)
(* Settings.all, each as constructed (nothing staged, nothing loaded).      *)

SettingValue(key, defaultValue) ==
    [key |-> key, defaultValue |-> defaultValue,
     _setValue |-> Null, _loadedValue |-> Null]

NewSettings ==
    << SettingValue("debugLogEnabled", Bool(FALSE)),
       SettingValue("host", HOST),
       SettingValue("projectId", PROJECT_ID),
       SettingValue("apiKey", API_KEY) >>

Keys == {NewSettings[i].key : i \in DOMAIN NewSettings}

-----------------------------------------------------------------------------
(* SettingsStorage: MemorySettingsStorage / SessionStorageSettingsStorage.  *)
(* A call returns the new backend; load returns string | null.              *)

storageLoad(st, key) == st[key]

storageSave(st, key, valueString) == [st EXCEPT ![key] = Str(valueString)]

storageClear(st, key) == [st EXCEPT ![key] = Null]

Call(op, key, v) == [op |-> op, key |-> key, value |-> v]

-----------------------------------------------------------------------------
(* SettingValue<T> *)

\* value with the layers consulted in the wrong order: loaded before staged.
valueLoadedFirst(self) ==
    IF self._loadedValue # Null THEN self._loadedValue
    ELSE IF self._setValue = RESET_TOKEN THEN self.defaultValue
    ELSE IF self._setValue # Null THEN self._setValue
    ELSE self.defaultValue

value(self) ==
    IF self._setValue = RESET_TOKEN THEN self.defaultValue
    ELSE IF self._setValue # Null THEN self._setValue
    ELSE IF self._loadedValue # Null THEN self._loadedValue
    ELSE self.defaultValue

\* isDirty that does not count a staged reset.
isDirtyIgnoringReset(self) == self._setValue \notin {Null, RESET_TOKEN}

isDirty(self) == self._setValue # Null

isDefault(self) == self._setValue = Null /\ self._loadedValue = Null

\* setValue() writing the loaded layer as well as the staged one.
setValueThroughToLoaded(self, newValue) ==
    [self EXCEPT !._setValue = newValue, !._loadedValue = newValue]

setValue(self, newValue) == [self EXCEPT !._setValue = newValue]

resetValue(self) == [self EXCEPT !._setValue = RESET_TOKEN]

\* _loadValue() testing the stored text for falsiness instead of null.
loadValueFalsyIsNull(self, st) ==
    LET stringValue == storageLoad(st, self.key) IN
    IF stringValue = Null \/ stringValue.s = "" THEN Null
    ELSE IF typeof(self.defaultValue) = "string" THEN stringValue
    ELSE IF stringValue.s = "true" THEN Bool(TRUE)
    ELSE IF stringValue.s = "false" THEN Bool(FALSE)
    ELSE Null

\* _loadValue() taking every stored text but "true" for false.
loadValueNotTrueIsFalse(self, st) ==
    LET stringValue == storageLoad(st, self.key) IN
    IF stringValue = Null THEN Null
    ELSE IF typeof(self.defaultValue) = "string" THEN stringValue
    ELSE Bool(stringValue.s = "true")

\* _loadValue(): the raw string parsed to the setting's declared type.
loadValue(self, st) ==
    LET stringValue == storageLoad(st, self.key) IN
    IF stringValue = Null THEN Null
    ELSE IF typeof(self.defaultValue) = "string" THEN stringValue
    ELSE IF typeof(self.defaultValue) = "boolean" THEN
        IF stringValue.s = "true" THEN Bool(TRUE)
        ELSE IF stringValue.s = "false" THEN Bool(FALSE)
        ELSE Null
    ELSE Thrown

\* load(): the object afterwards.
load(self, st) ==
    LET loadedValue == loadValue(self, st) IN
    IF loadedValue # Null THEN [self EXCEPT !._loadedValue = loadedValue]
    ELSE self

\* The storage calls load() makes.
loadCalls(self) == << Call("load", self.key, Null) >>

\* _saveValue(): the text written for a value.
valueString(v) ==
    IF typeof(v) = "string" THEN v.s
    ELSE IF v.b THEN "true" ELSE "false"

\* _saveValue() writing the default's text for a reset instead of clearing.
saveValueCallResetWritesDefault(self, v) ==
    IF v = RESET_TOKEN THEN Call("save", self.key, Str(valueString(self.defaultValue)))
    ELSE Call("save", self.key, Str(valueString(v)))

\* _saveValue(): the storage call it makes.
saveValueCall(self, v) ==
    IF v = RESET_TOKEN THEN Call("clear", self.key, Null)
    ELSE Call("save", self.key, Str(valueString(v)))

\* The storage backend after one call.
Perform(st, call) ==
    IF call.op = "save" THEN storageSave(st, call.key, call.value.s)
    ELSE IF call.op = "clear" THEN storageClear(st, call.key)
    ELSE st

\* save() that clears the staged change without updating the loaded value.
saveKeepingLoaded(self) == [self EXCEPT !._setValue = Null]

\* save(): the object afterwards.
save(self) ==
    LET newValue == self._setValue IN
    IF newValue = Null THEN self
    ELSE [self EXCEPT !._setValue = Null,
                      !._loadedValue = IF newValue = RESET_TOKEN THEN Null
                                       ELSE newValue]

\* save() without the early return: it writes the current value anyway.
saveCallsAlways(self) ==
    LET newValue == self._setValue IN
    IF newValue = Null THEN << Call("save", self.key, Str(valueString(value(self)))) >>
    ELSE << saveValueCall(self, newValue) >>

\* save(): the storage calls it makes.
saveCalls(self) ==
    LET newValue == self._setValue IN
    IF newValue = Null THEN << >>
    ELSE << saveValueCall(self, newValue) >>

RECURSIVE PerformAll(_, _)
PerformAll(st, calls) ==
    IF calls = << >> THEN st
    ELSE PerformAll(Perform(st, Head(calls)), Tail(calls))

-----------------------------------------------------------------------------
(* FirestoreDebugLogEnabledSettingValue.apply(): the level it hands to      *)
(* setLogLevel(), or the level in force when it returns early.              *)

applyLogLevel(self, current) ==
    IF isDefault(self) THEN current
    ELSE IF value(self).b THEN "debug" ELSE "info"

hasApply(self) == self.key = "debugLogEnabled"

-----------------------------------------------------------------------------
(* Inputs *)

HostOrder == << "emulator", "qa", "nightly", "prod" >>

HostSamples == {HostOrder[n] : n \in 1..(IF MaxHosts < 4 THEN MaxHosts ELSE 4)}

TextSamples == {Str("v" \o ToString(n)) : n \in 1..MaxStrings}

\* The values a caller stages in a member of the Settings collection: both
\* booleans, sample hosts, one text per text setting.
Inputs(self) ==
    IF typeof(self.defaultValue) = "boolean" THEN {Bool(TRUE), Bool(FALSE)}
    ELSE IF self.key = "host" THEN {Str(h) : h \in HostSamples}
    ELSE {Str("my-" \o self.key)}

\* Inputs(self) and more of the setting's type: every host; for a text
\* setting more texts, the empty string and the default itself.
EdgeInputs(self) ==
    Inputs(self) \cup
    (IF self.key = "host" THEN {Str(h) : h \in FirestoreHost}
     ELSE IF typeof(self.defaultValue) = "string"
          THEN TextSamples \cup {Str(""), self.defaultValue}
     ELSE {})

\* What the storage backend may hold for a key before the program runs:
\* nothing, a text an earlier save() wrote, or a text written by something
\* else (session storage outlives the page).
RawSamples(self) ==
    {Null} \cup {Str(valueString(v)) : v \in Inputs(self)} \cup
    (IF typeof(self.defaultValue) = "boolean" THEN {Str("yes"), Str("")}
     ELSE IF self.key = "host" THEN {Str("bogus")}
     ELSE {Str("")})

EmptyStorage == [k \in Keys |-> Null]

NoCall == [op |-> "new", arg |-> Null]

Called(op, arg) == [op |-> op, arg |-> arg]

-----------------------------------------------------------------------------
(* The other modules of the app as they are when the page (or the process)  *)
(* has just been loaded.                                                    *)

\* What a helper or cache call returned or threw: `kind` is "none" before
\* any call, "null" for a miss, "value" for a returned object, "void" for a
\* call that returns nothing and "error" for a throw.
Outcome(op, kind, v, message) ==
    [op |-> op, kind |-> kind, value |-> v, message |-> message]

NoOutcome == Outcome("none", "none", Null, "")

\* An empty Map.
EmptyMap == << >>

\* The SDK before any call: no app, no Firestore object.
NoSdkObjects == [apps |-> {}, firestores |-> {}]

\* firestore_helper.ts after import: no primitive installed, empty caches.
InitHelperModule ==
    /\ sdk = NoSdkObjects
    /\ hasher = Null
    /\ base64Encode = Null
    /\ firebaseAppCache = EmptyMap
    /\ firestoreInstanceCache = EmptyMap
    /\ callers = << >>
    /\ outcome = NoOutcome

\* No call of performWritesInBatches yet. A write batch is the number of the
\* writeBatch(db) call that made it; writeBatch_ is 0 where the code holds
\* null. `calls` are the callback's invocations, `commits` the commit() calls.
NoBatching ==
    [pc |-> "idle", items |-> << >>, calls |-> << >>, created |-> 0,
     writeBatches |-> << >>, writeBatch_ |-> 0,
     currentWriteBatchWriteCount |-> 0, commits |-> << >>, promise |-> "none"]

\* util.ts before any call.
InitUtilModule == batching = NoBatching

\* The main panel after initialize(): no token source yet, no run, the Run
\* Test button enabled and the Cancel Test button disabled, an empty log.
InitShellModule ==
    /\ cancellationTokenSource = 0
    /\ sources = << >>
    /\ runs = << >>
    /\ runTestButtonEnabled = TRUE
    /\ cancelTestButtonEnabled = FALSE
    /\ logLines = << >>

-----------------------------------------------------------------------------
(* Spec: one SettingValue object and its storage backend.                   *)

Init ==
    /\ \E i \in DOMAIN NewSettings :
         /\ settings = << NewSettings[i] >>
         /\ \E raw \in RawSamples(NewSettings[i]) :
              storage = [EmptyStorage EXCEPT ![NewSettings[i].key] = raw]
    /\ fresh = << >>
    /\ debugLogEnabledSettingApplied = FALSE
    /\ logLevel = "unset"
    /\ lastCall = NoCall
    /\ storageCalls = << >>
    /\ returned = << >>
    /\ hash = ""
    /\ chkDebugLogging = FALSE
    /\ InitHelperModule
    /\ InitShellModule
    /\ InitUtilModule

SetValue(i, v) ==
    /\ settings' = [settings EXCEPT ![i] = setValue(settings[i], v)]
    /\ lastCall' = Called("setValue", Null)
    /\ storageCalls' = << >>
    /\ returned' = << >>
    /\ UNCHANGED <<storage, fresh, debugLogEnabledSettingApplied, logLevel,
                   hash, chkDebugLogging>>
    /\ UNCHANGED <<helperVars, shellVars, utilVars>>

ResetValue(i) ==
    /\ settings' = [settings EXCEPT ![i] = resetValue(settings[i])]
    /\ lastCall' = Called("resetValue", Null)
    /\ storageCalls' = << >>
    /\ returned' = << >>
    /\ UNCHANGED <<storage, fresh, debugLogEnabledSettingApplied, logLevel,
                   hash, chkDebugLogging>>
    /\ UNCHANGED <<helperVars, shellVars, utilVars>>

Load(i) ==
    /\ settings' = [settings EXCEPT ![i] = load(settings[i], storage)]
    /\ lastCall' = Called("load", Null)
    /\ storageCalls' = loadCalls(settings[i])
    /\ returned' = << >>
    /\ UNCHANGED <<storage, fresh, debugLogEnabledSettingApplied, logLevel,
                   hash, chkDebugLogging>>
    /\ UNCHANGED <<helperVars, shellVars, utilVars>>

Save(i) ==
    /\ settings' = [settings EXCEPT ![i] = save(settings[i])]
    /\ storageCalls' = saveCalls(settings[i])
    /\ storage' = PerformAll(storage, storageCalls')
    /\ lastCall' = Called("save", settings[i]._setValue)
    /\ returned' = << >>
    /\ UNCHANGED <<fresh, debugLogEnabledSettingApplied, logLevel,
                   hash, chkDebugLogging>>
    /\ UNCHANGED <<helperVars, shellVars, utilVars>>

Apply(i) ==
    /\ hasApply(settings[i])
    /\ debugLogEnabledSettingApplied' = TRUE
    /\ logLevel' = applyLogLevel(settings[i], logLevel)
    /\ lastCall' = Called("apply", Null)
    /\ storageCalls' = << >>
    /\ returned' = << >>
    /\ UNCHANGED <<storage, settings, fresh, hash, chkDebugLogging>>
    /\ UNCHANGED <<helperVars, shellVars, utilVars>>

\* A new SettingValue with the same key over the same storage, then load().
FreshLoad(i) ==
    /\ fresh' = << load(SettingValue(settings[i].key, settings[i].defaultValue),
                        storage) >>
    /\ lastCall' = Called("freshLoad", Null)
    /\ storageCalls' = loadCalls(settings[i])
    /\ returned' = << >>
    /\ UNCHANGED <<storage, settings, debugLogEnabledSettingApplied, logLevel,
                   hash, chkDebugLogging>>
    /\ UNCHANGED <<helperVars, shellVars, utilVars>>

Next ==
    \/ \E i \in DOMAIN settings : \E v \in EdgeInputs(settings[i]) : SetValue(i, v)
    \/ \E i \in DOMAIN settings : ResetValue(i)
    \/ \E i \in DOMAIN settings : Load(i)
    \/ \E i \in DOMAIN settings : Save(i)
    \/ \E i \in DOMAIN settings : Apply(i)
    \/ \E i \in DOMAIN settings : FreshLoad(i)

Spec == Init /\ [][Next]_vars

-----------------------------------------------------------------------------
(* Settings: the collection of the four settings.                           *)

\* loadAll(): every member loaded, in the order of Settings.all.
loadAll(all, st) == [i \in DOMAIN all |-> load(all[i], st)]

\* Settings.load(storage): the constructor, then loadAll().
SettingsLoad(st) == loadAll(NewSettings, st)

\* The state saveAll() works on: the members, the storage calls made so far,
\* savedSettings, and the log-level globals apply() writes.
SaveAllState(all, applied, level) ==
    [all |-> all, calls |-> << >>, savedSettings |-> << >>,
     applied |-> applied, level |-> level]

\* The body of saveAll()'s loop without its isDirty test: every member is
\* saved, applied and returned.
saveAllVisitUnconditional(acc, i) ==
    LET setting == acc.all[i]
        saved == save(setting)
    IN  [all |-> [acc.all EXCEPT ![i] = saved],
         calls |-> acc.calls \o saveCalls(setting),
         savedSettings |-> Append(acc.savedSettings, setting.key),
         applied |-> IF hasApply(setting) THEN TRUE ELSE acc.applied,
         level |-> IF hasApply(setting) THEN applyLogLevel(saved, acc.level)
                   ELSE acc.level]

\* The body of saveAll()'s loop for member i.
saveAllVisit(acc, i) ==
    LET setting == acc.all[i]
        saved == save(setting)
    IN  IF isDirty(setting)
        THEN [all |-> [acc.all EXCEPT ![i] = saved],
              calls |-> acc.calls \o saveCalls(setting),
              savedSettings |-> Append(acc.savedSettings, setting.key),
              applied |-> IF hasApply(setting) THEN TRUE ELSE acc.applied,
              level |-> IF hasApply(setting) THEN applyLogLevel(saved, acc.level)
                        ELSE acc.level]
        ELSE acc

\* saveAll(): the loop over Settings.all, from member i on.
RECURSIVE saveAll(_, _)
saveAll(acc, i) ==
    IF i > Len(acc.all) THEN acc
    ELSE saveAll(saveAllVisit(acc, i), i + 1)

-----------------------------------------------------------------------------
(* SpecSettings: a Settings object made by Settings.load(storage), its      *)
(* members staged through setValue()/resetValue(), and saveAll().           *)

\* The storage before the program starts: empty, or one key holding a text.
InitialStorages ==
    {EmptyStorage} \cup
    UNION { {[EmptyStorage EXCEPT ![NewSettings[i].key] = raw] :
                raw \in RawSamples(NewSettings[i])} : i \in DOMAIN NewSettings }

InitSettings ==
    /\ storage \in InitialStorages
    /\ settings = SettingsLoad(storage)
    /\ fresh = << >>
    /\ debugLogEnabledSettingApplied = FALSE
    /\ logLevel = "unset"
    /\ lastCall = NoCall
    /\ storageCalls = << >>
    /\ returned = << >>
    /\ hash = ""
    /\ chkDebugLogging = FALSE
    /\ InitHelperModule
    /\ InitShellModule
    /\ InitUtilModule

SaveAll ==
    LET done == saveAll(SaveAllState(settings, debugLogEnabledSettingApplied,
                                     logLevel), 1)
    IN  /\ settings' = done.all
        /\ storageCalls' = done.calls
        /\ storage' = PerformAll(storage, done.calls)
        /\ returned' = done.savedSettings
        /\ debugLogEnabledSettingApplied' = done.applied
        /\ logLevel' = done.level
        /\ lastCall' = Called("saveAll", Null)
        /\ UNCHANGED <<fresh, hash, chkDebugLogging>>
        /\ UNCHANGED <<helperVars, shellVars, utilVars>>

NextSettings ==
    \/ \E i \in DOMAIN settings : \E v \in Inputs(settings[i]) : SetValue(i, v)
    \/ \E i \in DOMAIN settings : ResetValue(i)
    \/ SaveAll

SpecSettings == InitSettings /\ [][NextSettings]_vars

-----------------------------------------------------------------------------
(* SpecBrowser: the settings panel of the browser page.  The page holds one *)
(* Settings object for the panel's callbacks (SettingsUiCallbacksImpl),     *)
(* loaded from session storage when the page initializes; showing the panel *)
(* loads another one (SettingsUiValuesImpl) to fill in the controls.        *)

\* What a text box holds: a text, possibly with white space around it.
TextBox(core, padded) == [core |-> core, padded |-> padded]

length(box) == IF box.core = "" /\ ~box.padded THEN 0 ELSE 1

trim(box) == TextBox(box.core, FALSE)

\* What the user may leave in the text box of a text setting.
TextBoxInputs(self) ==
    {TextBox(core, padded) :
        core \in {""} \cup {v.s : v \in Inputs(self)}, padded \in BOOLEAN}

\* SettingsUiCallbacksImpl.onTextBoxChanged: the setting afterwards.
onTextBoxChanged(newValue, setting) ==
    IF length(newValue) = 0 THEN resetValue(setting)
    ELSE LET newValueTrimmed == trim(newValue) IN
         IF length(newValueTrimmed) > 0
            /\ value(setting) # Str(newValueTrimmed.core)
         THEN setValue(setting, Str(newValueTrimmed.core))
         ELSE setting

\* Settings.load() as the page does it: the storage calls it makes.
loadSettingsCalls ==
    [i \in DOMAIN NewSettings |-> Call("load", NewSettings[i].key, Null)]

\* SettingsUi.show(new SettingsUiValuesImpl()): the checkbox as filled in
\* from a Settings object loaded now.
shownDebugLogging(st) == value(SettingsLoad(st)[1]).b

InitBrowser ==
    /\ storage \in InitialStorages
    /\ settings = SettingsLoad(storage)
    /\ hash \in {"", "#settings"}
    /\ chkDebugLogging = IF hash = "#settings" THEN shownDebugLogging(storage)
                         ELSE FALSE
    /\ fresh = << >>
    /\ debugLogEnabledSettingApplied = FALSE
    /\ logLevel = "unset"
    /\ lastCall = NoCall
    /\ storageCalls = loadSettingsCalls
    /\ returned = << >>
    /\ InitHelperModule
    /\ InitShellModule
    /\ InitUtilModule

\* MainUiCallbacksImpl.showSettings, then handleWindowHashChange.
ShowSettings ==
    /\ hash # "#settings"
    /\ hash' = "#settings"
    /\ chkDebugLogging' = shownDebugLogging(storage)
    /\ storageCalls' = loadSettingsCalls
    /\ lastCall' = Called("showSettings", Null)
    /\ returned' = << >>
    /\ UNCHANGED <<storage, settings, fresh, debugLogEnabledSettingApplied,
                   logLevel>>
    /\ UNCHANGED <<helperVars, shellVars, utilVars>>

\* A change event of a control of the panel: the callback's effect on the
\* panel's Settings object.
Changed(all) ==
    /\ settings' = all
    /\ storageCalls' = << >>
    /\ lastCall' = Called("change", Null)
    /\ returned' = << >>
    /\ UNCHANGED <<storage, fresh, debugLogEnabledSettingApplied, logLevel, hash>>
    /\ UNCHANGED <<helperVars, shellVars, utilVars>>

\* The checkbox is toggled: onDebugLoggingChange(checked).
DebugLoggingChange ==
    /\ hash = "#settings"
    /\ chkDebugLogging' = ~chkDebugLogging
    /\ Changed([settings EXCEPT ![1] = setValue(@, Bool(chkDebugLogging'))])

\* A host radio button is clicked: onFirestoreHostChange(host).
FirestoreHostChange(newValue) ==
    /\ hash = "#settings"
    /\ Changed([settings EXCEPT ![2] = setValue(@, newValue)])
    /\ UNCHANGED chkDebugLogging

\* The project ID text box changed: onProjectIdChange(text).
ProjectIdChange(newValue) ==
    /\ hash = "#settings"
    /\ Changed([settings EXCEPT ![3] = onTextBoxChanged(newValue, @)])
    /\ UNCHANGED chkDebugLogging

\* The API key text box changed: onApiKeyChange(text).
ApiKeyChange(newValue) ==
    /\ hash = "#settings"
    /\ Changed([settings EXCEPT ![4] = onTextBoxChanged(newValue, @)])
    /\ UNCHANGED chkDebugLogging

\* SettingsUiCallbacksImpl.close(), then handleWindowHashChange.
close == hash' = ""

\* The Save button: callbacks.save() (saveAll), then callbacks.close().
SaveClick ==
    LET done == saveAll(SaveAllState(settings, debugLogEnabledSettingApplied,
                                     logLevel), 1)
    IN  /\ hash = "#settings"
        /\ settings' = done.all
        /\ storageCalls' = done.calls
        /\ storage' = PerformAll(storage, done.calls)
        /\ returned' = done.savedSettings
        /\ debugLogEnabledSettingApplied' = done.applied
        /\ logLevel' = done.level
        /\ close
        /\ lastCall' = Called("save", Null)
        /\ UNCHANGED <<fresh, chkDebugLogging>>
        /\ UNCHANGED <<helperVars, shellVars, utilVars>>

\* The Cancel button: callbacks.close().
CancelClick ==
    /\ hash = "#settings"
    /\ close
    /\ storageCalls' = << >>
    /\ lastCall' = Called("cancel", Null)
    /\ returned' = << >>
    /\ UNCHANGED <<storage, settings, fresh, debugLogEnabledSettingApplied,
                   logLevel, chkDebugLogging>>
    /\ UNCHANGED <<helperVars, shellVars, utilVars>>

NextBrowser ==
    \/ ShowSettings
    \/ DebugLoggingChange
    \/ \E h \in Inputs(settings[2]) \cup {HOST} : FirestoreHostChange(h)
    \/ \E box \in TextBoxInputs(settings[3]) : ProjectIdChange(box)
    \/ \E box \in TextBoxInputs(settings[4]) : ApiKeyChange(box)
    \/ SaveClick
    \/ CancelClick

SpecBrowser == InitBrowser /\ [][NextBrowser]_vars

-----------------------------------------------------------------------------
(* firestore_helper.ts: cache keys and the FirebaseObjectCache class.       *)

\* A number as a JavaScript value; `s` is what a template literal prints.
Num(n) == [kind |-> "number", s |-> ToString(n), b |-> FALSE]

\* new FirebaseObjectCacheKey(host, projectId, apiKey, instanceId): three
\* strings and a number or null.
FirebaseObjectCacheKey(host, projectId, apiKey, instanceId) ==
    [host |-> host, projectId |-> projectId, apiKey |-> apiKey,
     instanceId |-> instanceId]

canonicalStringWithoutInstanceId(key) ==
    key.host \o "%" \o key.projectId \o "%" \o key.apiKey

canonicalString(key) ==
    canonicalStringWithoutInstanceId(key) \o
        (IF key.instanceId = Null THEN "" ELSE "%" \o key.instanceId.s)

\* A get() that finds nothing.
getMissing(cachedObjectsByKey, key) == Null

\* FirebaseObjectCache.get: the cached object, or null.
get(cachedObjectsByKey, key) ==
    IF canonicalString(key) \in DOMAIN cachedObjectsByKey
    THEN cachedObjectsByKey[canonicalString(key)]
    ELSE Null

\* A set() that replaces an entry instead of refusing it.
setReplacing(cachedObjectsByKey, key, v) ==
    [threw |-> FALSE, message |-> "",
     cachedObjectsByKey |-> (canonicalString(key) :> v) @@ cachedObjectsByKey]

\* A set() that keeps the entry it finds and reports nothing.
setSwallowing(cachedObjectsByKey, key, v) ==
    [threw |-> FALSE, message |-> "",
     cachedObjectsByKey |->
         IF canonicalString(key) \in DOMAIN cachedObjectsByKey
         THEN cachedObjectsByKey
         ELSE (canonicalString(key) :> v) @@ cachedObjectsByKey]

\* FirebaseObjectCache.set: whether it threw (and what), and the Map after.
set(cachedObjectsByKey, key, v) ==
    IF canonicalString(key) \in DOMAIN cachedObjectsByKey
    THEN [threw |-> TRUE,
          message |-> "Entry for " \o canonicalString(key) \o " already exists",
          cachedObjectsByKey |-> cachedObjectsByKey]
    ELSE [threw |-> FALSE, message |-> "",
          cachedObjectsByKey |->
              (canonicalString(key) :> v) @@ cachedObjectsByKey]

-----------------------------------------------------------------------------
(* SpecCache: one FirebaseObjectCache and the callers that use it.          *)

\* How many callers use the cache.
MaxCallers == 2

Callers == 1..MaxCallers

\* The keys the callers use.  The last two have the same canonical string:
\* API key "k%1" with no instance ID, and API key "k" with instance ID 1.
CacheKeySamples ==
    {FirebaseObjectCacheKey("prod", "p", "k", Null),
     FirebaseObjectCacheKey("prod", "p", "k%1", Null),
     FirebaseObjectCacheKey("prod", "p", "k", Num(1))}

\* The object a caller constructs to put into the cache.
CallerObject(c) == [db |-> "db-of-caller-" \o ToString(c)]

\* The settings layer when no specification operates it.
InitSettingsModule ==
    /\ storage = EmptyStorage
    /\ settings = SettingsLoad(storage)
    /\ fresh = << >>
    /\ debugLogEnabledSettingApplied = FALSE
    /\ logLevel = "unset"
    /\ lastCall = NoCall
    /\ storageCalls = << >>
    /\ returned = << >>
    /\ hash = ""
    /\ chkDebugLogging = FALSE

InitCache ==
    /\ InitSettingsModule
    /\ InitShellModule
    /\ InitUtilModule
    /\ sdk = NoSdkObjects
    /\ hasher = Null
    /\ base64Encode = Null
    /\ firebaseAppCache = EmptyMap
    /\ firestoreInstanceCache = EmptyMap
    /\ callers = [c \in Callers |-> [pc |-> "idle", key |-> Null, afterMiss |-> FALSE]]
    /\ outcome = NoOutcome

\* Where a caller stands: what its last call was ("missed" and "hit" for a
\* get, "stored" and "failed" for a set), the key it gave, and whether that
\* call was a set right after its own get of the same canonical string
\* missed.
Caller(pc, key, afterMiss) == [pc |-> pc, key |-> key, afterMiss |-> afterMiss]

\* Caller c calls get(key).
CacheGet(c, key) ==
    LET found == get(firestoreInstanceCache, key)
    IN  /\ callers' = [callers EXCEPT ![c] =
                Caller(IF found = Null THEN "missed" ELSE "hit", key, FALSE)]
        /\ outcome' = Outcome("get", IF found = Null THEN "null" ELSE "value",
                              found, "")
        /\ lastCall' = Called("get", key)
        /\ UNCHANGED <<storage, settings, fresh, debugLogEnabledSettingApplied,
                       logLevel, storageCalls, returned, hash, chkDebugLogging>>
        /\ UNCHANGED <<shellVars, utilVars, hasher, base64Encode, firebaseAppCache,
                       firestoreInstanceCache, sdk>>

\* Caller c calls set(key, its object).
CacheSet(c, key) ==
    LET done == set(firestoreInstanceCache, key, CallerObject(c))
        afterMiss == /\ callers[c].pc = "missed"
                     /\ canonicalString(callers[c].key) = canonicalString(key)
    IN  /\ firestoreInstanceCache' = done.cachedObjectsByKey
        /\ callers' = [callers EXCEPT ![c] =
                Caller(IF done.threw THEN "failed" ELSE "stored", key, afterMiss)]
        /\ outcome' = Outcome("set", IF done.threw THEN "error" ELSE "void",
                              Null, done.message)
        /\ lastCall' = Called("set", key)
        /\ UNCHANGED <<storage, settings, fresh, debugLogEnabledSettingApplied,
                       logLevel, storageCalls, returned, hash, chkDebugLogging>>
        /\ UNCHANGED <<shellVars, utilVars, hasher, base64Encode, firebaseAppCache, sdk>>

NextCache ==
    \/ \E c \in Callers : \E key \in CacheKeySamples : CacheGet(c, key)
    \/ \E c \in Callers : \E key \in CacheKeySamples : CacheSet(c, key)

SpecCache == InitCache /\ [][NextCache]_vars

-----------------------------------------------------------------------------
(* firestore_helper.ts: the hash primitives and the derived app name.       *)

\* The Hasher objects given to setHasher: the Closure Library's Md5 (browser)
\* and HasherImpl (Node.js).  `data` is what has been fed since the last
\* reset().
Md5 == [impl |-> "Md5", data |-> ""]

HasherImpl == [impl |-> "HasherImpl", data |-> ""]

reset(h) == [h EXCEPT !.data = ""]

update(h, bytes) == [h EXCEPT !.data = @ \o bytes]

\* The MD5 digest of what has been fed.  The two implementations feed the
\* hash differently (bytes, or the bytes' decimal digits), so their digests
\* differ; MD5 itself is taken to be free of collisions on the inputs here.
digest(h) == "md5/" \o h.impl \o "(" \o h.data \o ")"

\* new TextEncoder().encode(s): the UTF-8 bytes of s.
encode(s) == "utf8[" \o s \o "]"

\* The functions given to setBase64Encode: btoa and the Buffer-based encoder.
Btoa == [fn |-> "btoa"]

BufferBase64Encode == [fn |-> "Buffer.toString('base64')"]

\* Either encoder applied to a digest: the base64 characters and the padding.
applyBase64Encode(fn, digestByteString) ==
    [chars |-> "b64{" \o digestByteString \o "}", padding |-> "=="]

\* A setHasher that installs whatever it is given.
setHasherReplacing(current, hasherToSet) ==
    [threw |-> FALSE, message |-> "", installed |-> hasherToSet]

\* setHasher / setBase64Encode: whether it threw, and the variable after.
setHasher(current, hasherToSet) ==
    IF current # Null
    THEN [threw |-> TRUE, message |-> "hasher has already been set",
          installed |-> current]
    ELSE [threw |-> FALSE, message |-> "", installed |-> hasherToSet]

setBase64Encode(current, base64EncodeToSet) ==
    IF current # Null
    THEN [threw |-> TRUE,
          message |-> "base64 encode function has already been set",
          installed |-> current]
    ELSE [threw |-> FALSE, message |-> "", installed |-> base64EncodeToSet]

\* An appName getter that feeds the hasher without resetting it first.
appNameWithoutReset(key, h, b64) ==
    IF h = Null
    THEN [threw |-> TRUE, name |-> "", hasher |-> h,
          message |-> "hasher is needed but hash not yet been initialized"]
    ELSE IF b64 = Null
    THEN [threw |-> TRUE, name |-> "", hasher |-> h,
          message |-> "base64 encode function is needed but hash not yet been initialized"]
    ELSE LET fed == update(h, encode(canonicalStringWithoutInstanceId(key)))
             base64Digest == applyBase64Encode(b64, digest(fed))
         IN  [threw |-> FALSE, message |-> "", hasher |-> fed,
              name |-> base64Digest.chars \o
                       (IF key.instanceId = Null THEN ""
                        ELSE "-" \o key.instanceId.s)]

\* An appName getter that leaves the instance ID out of the name.
appNameWithoutInstanceId(key, h, b64) ==
    IF h = Null
    THEN [threw |-> TRUE, name |-> "", hasher |-> h,
          message |-> "hasher is needed but hash not yet been initialized"]
    ELSE IF b64 = Null
    THEN [threw |-> TRUE, name |-> "", hasher |-> h,
          message |-> "base64 encode function is needed but hash not yet been initialized"]
    ELSE LET fed == update(reset(h), encode(canonicalStringWithoutInstanceId(key)))
             base64Digest == applyBase64Encode(b64, digest(fed))
         IN  [threw |-> FALSE, message |-> "", hasher |-> fed,
              name |-> base64Digest.chars]

\* FirebaseObjectCacheKey.appName: whether it threw, the name, and the
\* hasher object after (the getter resets and feeds the shared hasher).
appName(key, h, b64) ==
    IF h = Null
    THEN [threw |-> TRUE, name |-> "", hasher |-> h,
          message |-> "hasher is needed but hash not yet been initialized"]
    ELSE IF b64 = Null
    THEN [threw |-> TRUE, name |-> "", hasher |-> h,
          message |-> "base64 encode function is needed but hash not yet been initialized"]
    ELSE LET fed == update(reset(h), encode(canonicalStringWithoutInstanceId(key)))
             base64Digest == applyBase64Encode(b64, digest(fed))
         IN  [threw |-> FALSE, message |-> "", hasher |-> fed,
              name |-> base64Digest.chars \o
                       (IF key.instanceId = Null THEN ""
                        ELSE "-" \o key.instanceId.s)]

-----------------------------------------------------------------------------
(* firestore_helper.ts: getOrCreateFirestore (exported as getFirestore).    *)

startsWith(s, prefix) ==
    Len(s) >= Len(prefix) /\ SubSeq(s, 1, Len(prefix)) = prefix

\* An isPlaceholderValue that recognizes nothing.
isPlaceholderValueNever(v) == FALSE

isPlaceholderValue(v) == startsWith(v, "REPLACE_WITH_YOUR_")

\* hostNameFromHost for the four hosts; it throws for any other string.
hostNameFromHost(host) ==
    CASE host = "prod" -> "firestore.googleapis.com"
      [] host = "emulator" -> "127.0.0.1"
      [] host = "nightly" -> "test-firestore.sandbox.googleapis.com"
      [] host = "qa" -> "staging-firestore.sandbox.googleapis.com"
      [] OTHER -> ""

FirebaseAppCacheEntry(app, key) == [app |-> app, key |-> key]

FirestoreCacheEntry(db, key, ssl) == [db |-> db, key |-> key, ssl |-> ssl]

\* FirestoreCacheEntry.toFirestoreInfo, given the entry's app name.
toFirestoreInfo(entry, name) ==
    [db |-> entry.db, appName |-> name, projectId |-> entry.key.projectId,
     apiKey |-> entry.key.apiKey, host |-> entry.key.host,
     hostName |-> hostNameFromHost(entry.key.host), ssl |-> entry.ssl]

\* The SDK's initializeApp(options, name): the app object and the SDK after.
initializeApp(s, projectId, apiKey, name) ==
    [app |-> [name |-> name, projectId |-> projectId, apiKey |-> apiKey],
     sdk |-> [s EXCEPT !.apps = @ \cup {name}]]

\* The SDK's getFirestore(app) and initializeFirestore(app, {host}): the
\* Firestore object of the app and the SDK after.
firestoreOf(s, app) ==
    [db |-> [app |-> app.name],
     sdk |-> [s EXCEPT !.firestores = @ \cup {app.name}]]

\* The state getOrCreateFirestore reads and writes.
HelperState ==
    [hasher |-> hasher, base64Encode |-> base64Encode,
     firebaseAppCache |-> firebaseAppCache,
     firestoreInstanceCache |-> firestoreInstanceCache, sdk |-> sdk,
     applied |-> debugLogEnabledSettingApplied, level |-> logLevel]

\* The calls of the SDK that getOrCreateFirestore makes and that can throw;
\* "" when none of them throws.
SdkCalls == {"initializeApp", "getFirestore", "connectFirestoreEmulator"}

\* getOrCreateFirestore(settings, instanceId): the state after and what it
\* returned or threw.  sdkThrows names the SDK call that throws in this
\* invocation if it is reached ("getFirestore" stands for initializeFirestore
\* as well), or is "".  The message of a returned outcome is the start of
\* the line the call logs when it finds the Firestore, or else the app, in
\* its cache.
getOrCreateFirestore(m, all, instanceId, sdkThrows) ==
    LET host == value(all[2]).s
        projectId == value(all[3]).s
        apiKey == value(all[4]).s
        cacheKey == FirebaseObjectCacheKey(host, projectId, apiKey, instanceId)
        m1 == IF m.applied THEN m
              ELSE [m EXCEPT !.applied = TRUE,
                             !.level = applyLogLevel(all[1], m.level)]
        cachedDb == get(m1.firestoreInstanceCache, cacheKey)
        cachedApp == get(m1.firebaseAppCache, cacheKey)
        named == appName(cacheKey, m1.hasher, m1.base64Encode)
        made == IF cachedApp # Null
                THEN [app |-> cachedApp.app, sdk |-> m1.sdk]
                ELSE initializeApp(m1.sdk, projectId, apiKey, named.name)
        appStored == IF cachedApp # Null
                     THEN [threw |-> FALSE, message |-> "",
                           cachedObjectsByKey |-> m1.firebaseAppCache]
                     ELSE set(m1.firebaseAppCache, cacheKey,
                              FirebaseAppCacheEntry(made.app, cacheKey))
        m2 == [m1 EXCEPT !.hasher = named.hasher,
                         !.sdk = made.sdk,
                         !.firebaseAppCache = appStored.cachedObjectsByKey]
        opened == firestoreOf(made.sdk, made.app)
        m3 == [m2 EXCEPT !.sdk = opened.sdk]
        firestoreCacheEntry ==
            FirestoreCacheEntry(opened.db, cacheKey, host # "emulator")
        stored == set(m1.firestoreInstanceCache, cacheKey, firestoreCacheEntry)
        Threw(after, message) ==
            [m |-> after,
             outcome |-> Outcome("getFirestore", "error", Null, message)]
    IN  IF host \notin FirestoreHost
        THEN Threw(m, "unknown host: " \o host)
        ELSE IF host # "emulator" /\ isPlaceholderValue(projectId)
        THEN Threw(m, "The Project ID needs to be set")
        ELSE IF cachedDb # Null
        THEN LET shown == appName(cachedDb.key, m1.hasher, m1.base64Encode)
             IN  [m |-> [m1 EXCEPT !.hasher = shown.hasher],
                  outcome |-> Outcome("getFirestore", "value",
                                      toFirestoreInfo(cachedDb, shown.name),
                                      "Using existing Firestore instance")]
        ELSE IF named.threw
        THEN Threw(m1, named.message)
        ELSE IF cachedApp = Null /\ sdkThrows = "initializeApp"
        THEN Threw([m1 EXCEPT !.hasher = named.hasher], "initializeApp threw")
        ELSE IF appStored.threw
        THEN Threw([m2 EXCEPT !.firebaseAppCache = m1.firebaseAppCache],
                   appStored.message)
        ELSE IF sdkThrows = "getFirestore"
        THEN Threw(m2, "getFirestore threw")
        ELSE IF host = "emulator" /\ sdkThrows = "connectFirestoreEmulator"
        THEN Threw(m3, "connectFirestoreEmulator threw")
        ELSE IF stored.threw
        THEN Threw(m3, stored.message)
        ELSE [m |-> [m3 EXCEPT !.firestoreInstanceCache =
                                    stored.cachedObjectsByKey],
              outcome |-> Outcome("getFirestore", "value",
                                  toFirestoreInfo(firestoreCacheEntry, named.name),
                                  IF cachedApp # Null
                                  THEN "Using existing FirebaseApp instance"
                                  ELSE "")]

-----------------------------------------------------------------------------
(* SpecHelper: setHasher, setBase64Encode and getFirestore, with the        *)
(* settings changed in between.                                             *)

\* The largest instance ID given to getFirestore.
MaxInstanceId == 1

\* No instance ID (the main instance), or a number.
InstanceIds == {Null} \cup {Num(n) : n \in 1..MaxInstanceId}

\* An invocation of getFirestore that returned: the settings values it was
\* given, the instance ID and the Firestore object it returned.
Invocation(all, instanceId, db) ==
    [host |-> value(all[2]).s, projectId |-> value(all[3]).s,
     apiKey |-> value(all[4]).s, instanceId |-> instanceId, db |-> db]

InitHelper ==
    /\ InitSettingsModule
    /\ InitShellModule
    /\ InitUtilModule
    /\ sdk = NoSdkObjects
    /\ hasher = Null
    /\ base64Encode = Null
    /\ firebaseAppCache = EmptyMap
    /\ firestoreInstanceCache = EmptyMap
    /\ callers = {}
    /\ outcome = NoOutcome

SetHasher(hasherToSet) ==
    LET done == setHasher(hasher, hasherToSet)
    IN  /\ hasher' = done.installed
        /\ outcome' = Outcome("setHasher", IF done.threw THEN "error" ELSE "void",
                              Null, done.message)
        /\ lastCall' = Called("setHasher", Null)
        /\ UNCHANGED <<storage, settings, fresh, debugLogEnabledSettingApplied,
                       logLevel, storageCalls, returned, hash, chkDebugLogging>>
        /\ UNCHANGED <<shellVars, utilVars, base64Encode, firebaseAppCache,
                       firestoreInstanceCache, sdk, callers>>

SetBase64Encode(base64EncodeToSet) ==
    LET done == setBase64Encode(base64Encode, base64EncodeToSet)
    IN  /\ base64Encode' = done.installed
        /\ outcome' = Outcome("setBase64Encode",
                              IF done.threw THEN "error" ELSE "void",
                              Null, done.message)
        /\ lastCall' = Called("setBase64Encode", Null)
        /\ UNCHANGED <<storage, settings, fresh, debugLogEnabledSettingApplied,
                       logLevel, storageCalls, returned, hash, chkDebugLogging>>
        /\ UNCHANGED <<shellVars, utilVars, hasher, firebaseAppCache,
                       firestoreInstanceCache, sdk, callers>>

\* loadSettings(), then getFirestore(settings, instanceId), as go() and the
\* TestEnvironment it builds call it.
GetFirestore(instanceId) ==
    LET all == SettingsLoad(storage)
        done == getOrCreateFirestore(HelperState, all, instanceId, "")
    IN  /\ hasher' = done.m.hasher
        /\ base64Encode' = done.m.base64Encode
        /\ firebaseAppCache' = done.m.firebaseAppCache
        /\ firestoreInstanceCache' = done.m.firestoreInstanceCache
        /\ sdk' = done.m.sdk
        /\ debugLogEnabledSettingApplied' = done.m.applied
        /\ logLevel' = done.m.level
        /\ outcome' = done.outcome
        /\ callers' = IF done.outcome.kind = "value"
                      THEN callers \cup
                           {Invocation(all, instanceId, done.outcome.value.db)}
                      ELSE callers
        /\ lastCall' = Called("getFirestore", instanceId)
        /\ UNCHANGED <<storage, settings, fresh, storageCalls, returned, hash,
                       chkDebugLogging>>
        /\ UNCHANGED <<shellVars, utilVars>>

\* The settings panel saves a new value of the host or the project ID
\* (setValue(v) and saveAll()), or resets it (resetValue() and saveAll()).
SaveSetting(i, staged) ==
    /\ storage' = PerformAll(storage, saveCalls(staged))
    /\ lastCall' = Called("saveSetting", Null)
    /\ outcome' = Outcome("saveSetting", "void", Null, "")
    /\ UNCHANGED <<settings, fresh, debugLogEnabledSettingApplied, logLevel,
                   storageCalls, returned, hash, chkDebugLogging>>
    /\ UNCHANGED <<hasher, base64Encode, firebaseAppCache,
                   firestoreInstanceCache, sdk, callers>>
    /\ UNCHANGED <<shellVars, utilVars>>

NextHelper ==
    \/ \E h \in {Md5, HasherImpl} : SetHasher(h)
    \/ \E f \in {Btoa, BufferBase64Encode} : SetBase64Encode(f)
    \/ \E instanceId \in InstanceIds : GetFirestore(instanceId)
    \/ SaveSetting(2, setValue(SettingsLoad(storage)[2], Str("emulator")))
    \/ SaveSetting(3, setValue(SettingsLoad(storage)[3], Str("my-projectId")))
    \/ \E i \in {2, 3} : SaveSetting(i, resetValue(SettingsLoad(storage)[i]))

SpecHelper == InitHelper /\ [][NextHelper]_vars

-----------------------------------------------------------------------------
(* SpecRequests: getFirestore called with settings loaded from storages of  *)
(* various contents, with SDK calls that may throw.                         *)

\* A storage with the given host, project ID and API key saved (Null for a
\* key with nothing saved, which gives the default of firebase_config.ts).
StorageWith(host, projectId, apiKey) ==
    [EmptyStorage EXCEPT !["host"] = host, !["projectId"] = projectId,
                         !["apiKey"] = apiKey]

\* A call of getFirestore: the storage the settings are loaded from and
\* the instance ID.
Request(st, instanceId) == [storage |-> st, instanceId |-> instanceId]

\* The calls made: the defaults (production, placeholder project ID); the
\* emulator with the placeholder project ID; a host that is not a
\* FirestoreHost; the nightly host with a project ID and the placeholder
\* API key; and two calls that differ in API key and instance ID.
RequestSamples ==
    {Request(StorageWith(Null, Null, Str("k")), Null),
     Request(StorageWith(Str("emulator"), Null, Str("k")), Null),
     Request(StorageWith(Str("bogus"), Str("p"), Str("k")), Null),
     Request(StorageWith(Str("nightly"), Str("p"), Null), Null),
     Request(StorageWith(Null, Str("p"), Str("k%1")), Null),
     Request(StorageWith(Null, Str("p"), Str("k")), Num(1))}

InitRequests ==
    /\ InitSettingsModule
    /\ InitShellModule
    /\ InitUtilModule
    /\ sdk = NoSdkObjects
    /\ hasher = Md5
    /\ base64Encode = Btoa
    /\ firebaseAppCache = EmptyMap
    /\ firestoreInstanceCache = EmptyMap
    /\ callers = {}
    /\ outcome = NoOutcome

\* A caller loads the settings from the storage of the request and calls
\* getFirestore(settings, instanceId); the SDK call sdkThrows, if any and
\* if reached, throws.
RequestFirestore(r, sdkThrows) ==
    LET all == SettingsLoad(r.storage)
        done == getOrCreateFirestore(HelperState, all, r.instanceId, sdkThrows)
    IN  /\ storage' = r.storage
        /\ hasher' = done.m.hasher
        /\ base64Encode' = done.m.base64Encode
        /\ firebaseAppCache' = done.m.firebaseAppCache
        /\ firestoreInstanceCache' = done.m.firestoreInstanceCache
        /\ sdk' = done.m.sdk
        /\ debugLogEnabledSettingApplied' = done.m.applied
        /\ logLevel' = done.m.level
        /\ outcome' = done.outcome
        /\ callers' = IF done.outcome.kind = "value"
                      THEN callers \cup
                           {Invocation(all, r.instanceId, done.outcome.value.db)}
                      ELSE callers
        /\ lastCall' = Called("getFirestore", r.instanceId)
        /\ UNCHANGED <<settings, fresh, storageCalls, returned, hash,
                       chkDebugLogging>>
        /\ UNCHANGED <<shellVars, utilVars>>

NextRequests ==
    \E r \in RequestSamples : \E sdkThrows \in {""} \cup SdkCalls :
        RequestFirestore(r, sdkThrows)

SpecRequests == InitRequests /\ [][NextRequests]_vars

-----------------------------------------------------------------------------
(* SpecName: app names derived one after another with the shared hasher.    *)

\* How many different keys get a name derived.
MaxDerivations == 2

\* The keys whose names are derived.  Project ID "a%b" with API key "c" and
\* project ID "a" with API key "b%c" have the same canonical string.
NameKeySamples ==
    {FirebaseObjectCacheKey(host, projectId, apiKey, instanceId) :
        host \in {"prod", "emulator"}, projectId \in {"a", "a%b"},
        apiKey \in {"c", "b%c"}, instanceId \in {Null, Num(1)}}

\* A derivation made: the key, the name, and whether a name had been derived
\* for that key before.
Derivation(key, name, again) == [key |-> key, name |-> name, again |-> again]

InitName ==
    /\ InitSettingsModule
    /\ InitShellModule
    /\ InitUtilModule
    /\ sdk = NoSdkObjects
    /\ hasher \in {Md5, HasherImpl}
    /\ base64Encode \in {Btoa, BufferBase64Encode}
    /\ firebaseAppCache = EmptyMap
    /\ firestoreInstanceCache = EmptyMap
    /\ callers = {}
    /\ outcome = NoOutcome

\* Read key.appName.
DeriveAppName(key) ==
    LET named == appName(key, hasher, base64Encode)
        again == \E d \in callers : d.key = key
    IN  /\ again \/ Cardinality({d.key : d \in callers}) < MaxDerivations
        /\ hasher' = named.hasher
        /\ callers' = callers \cup {Derivation(key, named.name, again)}
        /\ outcome' = Outcome("appName", IF named.threw THEN "error" ELSE "value",
                              Str(named.name), named.message)
        /\ lastCall' = Called("appName", key)
        /\ UNCHANGED <<storage, settings, fresh, debugLogEnabledSettingApplied,
                       logLevel, storageCalls, returned, hash, chkDebugLogging>>
        /\ UNCHANGED <<shellVars, utilVars, base64Encode, firebaseAppCache,
                       firestoreInstanceCache, sdk>>

NextName == \E key \in NameKeySamples : DeriveAppName(key)

SpecName == InitName /\ [][NextName]_vars

-----------------------------------------------------------------------------
(* common/cancellation_token.ts: CancellationTokenSource and its token.     *)
(* A source and its token share one flag; only cancel() writes it.          *)

\* new CancellationTokenSource(): not cancelled.
CancellationTokenSource == [cancelled |-> FALSE]

\* A cancel() that flips the flag.
cancelToggling(source) == [source EXCEPT !.cancelled = ~@]

\* source.cancel()
cancel(source) == [source EXCEPT !.cancelled = TRUE]

\* token.isCancelled
isCancelled(source) == source.cancelled

\* What token.throwIfCancelled() throws when the flag is set.
OperationCancelled ==
    [isError |-> TRUE, name |-> "OperationCancelled",
     message |-> "operation cancelled"]

\* token.throwIfCancelled(): the value thrown, or Null when it returns.
throwIfCancelled(source) ==
    IF isCancelled(source) THEN OperationCancelled ELSE Null

-----------------------------------------------------------------------------
(* run_the_test.ts: the scenario, one remote operation at a time.           *)

\* The remote operations of runTheTest in program order: createDocument,
\* getDoc, setDoc, getDoc.
RemoteOperations == << "create", "read", "write", "read" >>

\* The line runTheTest logs before it issues its n-th remote operation.
logBefore(n) ==
    CASE n = 2 -> << "getDoc(doc1)" >>
      [] n = 3 -> << "setDoc(doc1, ...)" >>
      [] n = 4 -> << "getDoc(doc1)" >>
      [] OTHER -> << >>

\* The line runTheTest logs when its n-th remote operation has completed.
logAfter(n) ==
    IF n \in {2, 4} THEN << "getDoc(doc1) returned: ..." >> ELSE << >>

\* An invocation of go(): the token source it was given, the remote
\* operations issued so far (the last one is in flight while the run is
\* "running"), and how it ended: "completed", or "threw" with the value
\* caught by go().
Run(source, issued, state, caught) ==
    [source |-> source, issued |-> issued, state |-> state, caught |-> caught]

\* A runner that does not poll the token after a remote operation.
resumeWithoutPoll(run, token) ==
    LET n == Len(run.issued)
    IN  IF n = Len(RemoteOperations)
        THEN [run |-> Run(run.source, run.issued, "completed", Null),
              lines |-> logAfter(n)]
        ELSE [run |-> Run(run.source, Append(run.issued, RemoteOperations[n + 1]),
                          "running", Null),
              lines |-> logAfter(n) \o logBefore(n + 1)]

\* runTheTest resumed when its remote operation in flight has completed:
\* it logs, polls the token, and issues the next operation or returns.
resume(run, token) ==
    LET n == Len(run.issued)
        thrown == throwIfCancelled(token)
    IN  IF thrown # Null
        THEN [run |-> Run(run.source, run.issued, "threw", thrown),
              lines |-> logAfter(n)]
        ELSE IF n = Len(RemoteOperations)
        THEN [run |-> Run(run.source, run.issued, "completed", Null),
              lines |-> logAfter(n)]
        ELSE [run |-> Run(run.source, Append(run.issued, RemoteOperations[n + 1]),
                          "running", Null),
              lines |-> logAfter(n) \o logBefore(n + 1)]

-----------------------------------------------------------------------------
(* browser/index.ts: go(), MainUiCallbacksImpl and the main panel.          *)

\* How many times Run Test is clicked.
MaxRuns == 2

\* How many times Cancel Test is clicked.
MaxCancelClicks == 2

\* A line of the log output, with the invocation of go() that logged it
\* (0 for a line logged by a click handler itself).
LogLine(r, text) == [run |-> r, text |-> text]

Tagged(r, lines) == [n \in DOMAIN lines |-> LogLine(r, lines[n])]

\* Values a remote operation can reject with: an Error of the SDK, or a
\* value that is not an Error.
SdkError == [isError |-> TRUE, name |-> "FirebaseError", message |-> "unavailable"]

NonErrorValue == [isError |-> FALSE, text |-> "rejected"]

\* The Error getFirestore threw, as go() catches it.
ConfigurationError(message) ==
    [isError |-> TRUE, name |-> "Error", message |-> message]

\* The lines getFirestore logs when it returns.
getFirestoreLines(returnedOutcome) ==
    IF returnedOutcome.message = "Using existing Firestore instance"
    THEN << returnedOutcome.message >>
    ELSE (IF returnedOutcome.message # "" THEN << returnedOutcome.message >>
          ELSE << "initializeApp()" >>)
         \o (IF returnedOutcome.value.host \in {"prod", "emulator"}
             THEN << "getFirestore()" >> ELSE << "initializeFirestore()" >>)
         \o (IF returnedOutcome.value.host = "emulator"
             THEN << "connectFirestoreEmulator()" >> ELSE << >>)

\* A runTest() that leaves the previous token source as it is.
runTestKeepingPrevious(current, made) ==
    [cancellationTokenSource |-> Len(made) + 1,
     sources |-> Append(made, CancellationTokenSource)]

\* MainUiCallbacksImpl.runTest up to the call of go(): cancel the previous
\* source if there is one, then make a new one.
runTest(current, made) ==
    LET cancelled == IF current # 0
                     THEN [made EXCEPT ![current] = cancel(@)]
                     ELSE made
    IN  [cancellationTokenSource |-> Len(cancelled) + 1,
         sources |-> Append(cancelled, CancellationTokenSource)]

\* A go() that enables the Run Test button only when nothing was thrown.
goAfterTryWithoutFinally(run) ==
    [lines |-> (IF run.state = "threw"
                THEN << IF run.caught.isError
                        THEN "ERROR: " \o run.caught.message
                        ELSE "ERROR: " \o run.caught.text >>
                ELSE << >>) \o << "Test completed in ..." >>,
     runTestButtonEnabled |-> run.state # "threw"]

\* go() from the end of its try block: the catch clause if something was
\* thrown, the finally clause, and the closing log line.
goAfterTry(run) ==
    [lines |-> (IF run.state = "threw"
                THEN << IF run.caught.isError
                        THEN "ERROR: " \o run.caught.message
                        ELSE "ERROR: " \o run.caught.text >>
                ELSE << >>) \o << "Test completed in ..." >>,
     runTestButtonEnabled |-> TRUE]

\* The storage when the page is loaded: nothing saved (production host and
\* placeholder project ID), or the emulator selected.
ShellStorages ==
    {EmptyStorage, [EmptyStorage EXCEPT !["host"] = Str("emulator")]}

\* The page after initialize(). Whether the Cancel Test button starts
\* enabled is decided by the page's markup, so both are possible.
InitShell ==
    /\ storage \in ShellStorages
    /\ settings = SettingsLoad(storage)
    /\ fresh = << >>
    /\ debugLogEnabledSettingApplied = FALSE
    /\ logLevel = "unset"
    /\ lastCall = NoCall
    /\ storageCalls = << >>
    /\ returned = << >>
    /\ hash = ""
    /\ chkDebugLogging = FALSE
    /\ sdk = NoSdkObjects
    /\ hasher = Md5
    /\ base64Encode = Btoa
    /\ firebaseAppCache = EmptyMap
    /\ firestoreInstanceCache = EmptyMap
    /\ callers = {}
    /\ outcome = NoOutcome
    /\ cancellationTokenSource = 0
    /\ sources = << >>
    /\ runs = << >>
    /\ runTestButtonEnabled = TRUE
    /\ cancelTestButtonEnabled \in BOOLEAN
    /\ InitUtilModule
    /\ logLines = << >>

\* The Run Test button is clicked: runTest(), and go() up to its first
\* await (the first remote operation of runTheTest), or to its end if
\* getFirestore threw.
RunTestClick ==
    LET started == runTest(cancellationTokenSource, sources)
        r == Len(runs) + 1
        all == SettingsLoad(storage)
        got == getOrCreateFirestore(HelperState, all, Null, "")
        failed == Run(started.cancellationTokenSource, << >>, "threw",
                      ConfigurationError(got.outcome.message))
    IN  /\ runTestButtonEnabled
        /\ Len(runs) < MaxRuns
        /\ cancellationTokenSource' = started.cancellationTokenSource
        /\ sources' = started.sources
        /\ hasher' = got.m.hasher
        /\ base64Encode' = got.m.base64Encode
        /\ firebaseAppCache' = got.m.firebaseAppCache
        /\ firestoreInstanceCache' = got.m.firestoreInstanceCache
        /\ sdk' = got.m.sdk
        /\ debugLogEnabledSettingApplied' = got.m.applied
        /\ logLevel' = got.m.level
        /\ outcome' = got.outcome
        /\ cancelTestButtonEnabled' = TRUE
        /\ IF got.outcome.kind = "error"
           THEN /\ runs' = Append(runs, failed)
                /\ logLines' = logLines \o
                       Tagged(r, << "Test Starting" >> \o goAfterTry(failed).lines)
                /\ runTestButtonEnabled' = goAfterTry(failed).runTestButtonEnabled
           ELSE /\ runs' = Append(runs, Run(started.cancellationTokenSource,
                                            << RemoteOperations[1] >>,
                                            "running", Null))
                /\ logLines' = logLines \o
                       Tagged(r, << "Test Starting" >>
                                 \o getFirestoreLines(got.outcome))
                /\ runTestButtonEnabled' = FALSE
        /\ lastCall' = Called("runTest", Null)
        /\ UNCHANGED <<storage, settings, fresh, storageCalls, returned, hash,
                       chkDebugLogging, callers, utilVars>>

\* The Cancel Test button is clicked: cancelTest().
CancelTestClick ==
    /\ cancelTestButtonEnabled
    /\ Len(SelectSeq(logLines, LAMBDA line : line.run = 0)) < MaxCancelClicks
    /\ logLines' = Append(logLines, LogLine(0, "Test cancellation requested"))
    /\ sources' = IF cancellationTokenSource # 0
                  THEN [sources EXCEPT ![cancellationTokenSource] = cancel(@)]
                  ELSE sources
    /\ lastCall' = Called("cancelTest", Null)
    /\ UNCHANGED <<storage, settings, fresh, debugLogEnabledSettingApplied,
                   logLevel, storageCalls, returned, hash, chkDebugLogging>>
    /\ UNCHANGED <<helperVars, utilVars, cancellationTokenSource, runs,
                   runTestButtonEnabled, cancelTestButtonEnabled>>

\* What go() does when runTheTest stands as `run` after a remote operation
\* settled: nothing more while it is running, else the rest of go().
Settled(r, run, lines) ==
    /\ runs' = [runs EXCEPT ![r] = run]
    /\ IF run.state = "running"
       THEN /\ logLines' = logLines \o Tagged(r, lines)
            /\ UNCHANGED runTestButtonEnabled
       ELSE /\ logLines' = logLines \o Tagged(r, lines \o goAfterTry(run).lines)
            /\ runTestButtonEnabled' = goAfterTry(run).runTestButtonEnabled
    /\ UNCHANGED <<storage, settings, fresh, debugLogEnabledSettingApplied,
                   logLevel, storageCalls, returned, hash, chkDebugLogging>>
    /\ UNCHANGED <<helperVars, utilVars, cancellationTokenSource, sources,
                   cancelTestButtonEnabled>>

\* The remote operation in flight of run r completes.
OperationCompletes(r) ==
    LET resumed == resume(runs[r], sources[runs[r].source])
    IN  /\ runs[r].state = "running"
        /\ lastCall' = Called("completes", Null)
        /\ Settled(r, resumed.run, resumed.lines)

\* The remote operation in flight of run r rejects with e.
OperationRejects(r, e) ==
    /\ runs[r].state = "running"
    /\ lastCall' = Called("rejects", Null)
    /\ Settled(r, Run(runs[r].source, runs[r].issued, "threw", e), << >>)

NextShell ==
    \/ RunTestClick
    \/ CancelTestClick
    \/ \E r \in DOMAIN runs : OperationCompletes(r)
    \/ \E r \in DOMAIN runs : \E e \in {SdkError, NonErrorValue} :
           OperationRejects(r, e)

SpecShell == InitShell /\ [][NextShell]_vars

-----------------------------------------------------------------------------
(* node/arg_parser.ts and node/index.ts: the command line and go().         *)

\* The value of an option that was not given on the command line.
Undefined == [kind |-> "undefined", s |-> "", b |-> FALSE]

\* The boolean options, in the order parseArgs declares them.
HostFlags == << "prod", "emulator", "nightly", "qa" >>

LoggingFlags == << "debug", "quiet" >>

\* What yargs can give for a boolean option: nothing, --flag, --no-flag.
FlagValues == {Undefined, Bool(TRUE), Bool(FALSE)}

\* The objects yargs can hand to the checks: every assignment of the six
\* boolean options, with or without --projectId and --apiKey.
ParsedArgs ==
    [prod : FlagValues, emulator : FlagValues, nightly : FlagValues,
     qa : FlagValues, quiet : FlagValues, debug : FlagValues,
     projectId : {Undefined, Str("p")}, apiKey : {Undefined, Str("k")}]

RECURSIVE join(_)
\* Array.prototype.join(', ')
join(names) ==
    IF names = << >> THEN ""
    ELSE IF Len(names) = 1 THEN names[1]
    ELSE names[1] \o ", " \o join(Tail(names))

\* A check that counts only the options whose value is true.
checkMutuallyExclusiveTruthy(argNames, argv) ==
    LET setArgNames == SelectSeq(argNames, LAMBDA argName : argv[argName] = Bool(TRUE))
    IN  IF Len(setArgNames) > 1
        THEN [threw |-> TRUE,
              message |-> "at most one of " \o join(argNames)
                          \o " may be set, but got: " \o join(setArgNames)]
        ELSE [threw |-> FALSE, message |-> ""]

\* checkMutuallyExclusive(...argNames)(argv): true, or the Error thrown.
checkMutuallyExclusive(argNames, argv) ==
    LET setArgNames == SelectSeq(argNames, LAMBDA argName : argv[argName] # Undefined)
    IN  IF Len(setArgNames) > 1
        THEN [threw |-> TRUE,
              message |-> "at most one of " \o join(argNames)
                          \o " may be set, but got: " \o join(setArgNames)]
        ELSE [threw |-> FALSE, message |-> ""]

\* parseArgs() when yargs has read argv from the command line: the two
\* checks in the order they are registered; a failed check ends parsing.
parseArgs(argv) ==
    LET hosts == checkMutuallyExclusive(HostFlags, argv)
    IN  IF hosts.threw THEN hosts
        ELSE checkMutuallyExclusive(LoggingFlags, argv)

\* updateSettingsFromParsedArgs(parsedArgs, settings): the members after.
updateSettingsFromParsedArgs(parsedArgs, all) ==
    LET a1 == IF parsedArgs.debug # Undefined
              THEN [all EXCEPT ![1] = setValue(@, Bool(TRUE))] ELSE all
        a2 == IF parsedArgs.quiet # Undefined
              THEN [a1 EXCEPT ![1] = setValue(@, Bool(FALSE))] ELSE a1
        a3 == IF parsedArgs.prod # Undefined
              THEN [a2 EXCEPT ![2] = setValue(@, Str("prod"))] ELSE a2
        a4 == IF parsedArgs.emulator # Undefined
              THEN [a3 EXCEPT ![2] = setValue(@, Str("emulator"))] ELSE a3
        a5 == IF parsedArgs.nightly # Undefined
              THEN [a4 EXCEPT ![2] = setValue(@, Str("nightly"))] ELSE a4
        a6 == IF parsedArgs.qa # Undefined
              THEN [a5 EXCEPT ![2] = setValue(@, Str("qa"))] ELSE a5
        a7 == IF parsedArgs.projectId # Undefined /\ parsedArgs.projectId.s # ""
              THEN [a6 EXCEPT ![3] = setValue(@, parsedArgs.projectId)] ELSE a6
    IN  IF parsedArgs.apiKey # Undefined /\ parsedArgs.apiKey.s # ""
        THEN [a7 EXCEPT ![4] = setValue(@, parsedArgs.apiKey)] ELSE a7

\* The Node.js process when it starts.
InitNode ==
    /\ InitSettingsModule
    /\ InitHelperModule
    /\ InitShellModule
    /\ InitUtilModule

\* go() of node/index.ts up to its first await, for a command line that
\* yargs reads as argv: the hash primitives, parseArgs (a failed check ends
\* the process), the settings, getFirestore and the start of runTheTest.
NodeGo(argv) ==
    LET parsed == parseArgs(argv)
        installed == [HelperState EXCEPT
                          !.hasher = setHasher(hasher, HasherImpl).installed,
                          !.base64Encode =
                              setBase64Encode(base64Encode, BufferBase64Encode).installed]
        all == updateSettingsFromParsedArgs(argv, SettingsLoad(EmptyStorage))
        got == getOrCreateFirestore(installed, all, Null, "")
        done == IF parsed.threw THEN installed ELSE got.m
        caught == Run(1, << >>, "threw", ConfigurationError(got.outcome.message))
    IN  /\ lastCall = NoCall
        /\ lastCall' = Called("go", argv)
        /\ hasher' = done.hasher
        /\ base64Encode' = done.base64Encode
        /\ firebaseAppCache' = done.firebaseAppCache
        /\ firestoreInstanceCache' = done.firestoreInstanceCache
        /\ sdk' = done.sdk
        /\ debugLogEnabledSettingApplied' = done.applied
        /\ logLevel' = done.level
        /\ IF parsed.threw
           THEN /\ outcome' = Outcome("parseArgs", "error", Null, parsed.message)
                /\ UNCHANGED <<settings, sources, runs, logLines>>
           ELSE /\ outcome' = got.outcome
                /\ settings' = all
                /\ sources' = << CancellationTokenSource >>
                /\ IF got.outcome.kind = "error"
                   THEN /\ runs' = << caught >>
                        /\ logLines' = Tagged(1, << "Test Started" >>
                                                 \o goAfterTry(caught).lines)
                   ELSE /\ runs' = << Run(1, << RemoteOperations[1] >>,
                                          "running", Null) >>
                        /\ logLines' = Tagged(1, << "Test Started" >>
                                                 \o getFirestoreLines(got.outcome))
        /\ UNCHANGED <<storage, fresh, storageCalls, returned, hash, utilVars,
                       chkDebugLogging, callers, cancellationTokenSource,
                       runTestButtonEnabled, cancelTestButtonEnabled>>

\* The remote operation in flight settles: it completes, or it rejects with
\* e.  When runTheTest has ended, go() terminates the Firestore, logs the
\* error if there is one, and logs the closing line.
NodeOperationSettles(e) ==
    LET resumed == IF e = Null
                   THEN resume(runs[1], sources[runs[1].source])
                   ELSE [run |-> Run(runs[1].source, runs[1].issued, "threw", e),
                         lines |-> << >>]
    IN  /\ Len(runs) = 1
        /\ runs[1].state = "running"
        /\ runs' = << resumed.run >>
        /\ logLines' = logLines \o Tagged(1,
               resumed.lines \o
               (IF resumed.run.state = "running" THEN << >>
                ELSE << "Terminating Firestore" >> \o goAfterTry(resumed.run).lines))
        /\ UNCHANGED <<settingsVars, helperVars, utilVars,
                       cancellationTokenSource, sources,
                       runTestButtonEnabled, cancelTestButtonEnabled>>

NextNode ==
    \/ \E argv \in ParsedArgs : NodeGo(argv)
    \/ \E e \in {Null, SdkError, NonErrorValue} : NodeOperationSettles(e)

SpecNode == InitNode /\ [][NextNode]_vars

-----------------------------------------------------------------------------
(* util.ts: performWritesInBatches and the commits of its write batches.     *)

\* How many items the model passes to performWritesInBatches at most.
MaxItems == 1001

\* The number of writes at which the loop closes a write batch.
BatchLimit == 500

\* The loop body with the batch left in place after it was pushed.
forBodyKeepingBatch(st, item) ==
    LET opened == IF st.writeBatch_ = 0
                  THEN [st EXCEPT !.created = @ + 1,
                                  !.writeBatch_ = st.created + 1,
                                  !.currentWriteBatchWriteCount = 0]
                  ELSE st
        called == [opened EXCEPT
                      !.calls = Append(@, [batch |-> opened.writeBatch_,
                                           item |-> item]),
                      !.currentWriteBatchWriteCount = @ + 1]
    IN  IF called.currentWriteBatchWriteCount = BatchLimit
        THEN [called EXCEPT !.writeBatches = Append(@, called.writeBatch_)]
        ELSE called

\* One iteration of the loop over `items`.
forBody(st, item) ==
    LET opened == IF st.writeBatch_ = 0
                  THEN [st EXCEPT !.created = @ + 1,
                                  !.writeBatch_ = st.created + 1,
                                  !.currentWriteBatchWriteCount = 0]
                  ELSE st
        called == [opened EXCEPT
                      !.calls = Append(@, [batch |-> opened.writeBatch_,
                                           item |-> item]),
                      !.currentWriteBatchWriteCount = @ + 1]
    IN  IF called.currentWriteBatchWriteCount = BatchLimit
        THEN [called EXCEPT !.writeBatches = Append(@, called.writeBatch_),
                            !.writeBatch_ = 0]
        ELSE called

\* After the loop: the push of the batch still open, commit() on every
\* pushed batch in turn, and Promise.all over the promises they return.
commitAll(st) ==
    LET writeBatches == IF st.writeBatch_ # 0
                        THEN Append(st.writeBatches, st.writeBatch_)
                        ELSE st.writeBatches
    IN  [st EXCEPT !.pc = "returned",
                   !.writeBatches = writeBatches,
                   !.commits = [c \in DOMAIN writeBatches |->
                                   [batch |-> writeBatches[c], state |-> "pending"]],
                   !.promise = "pending"]

\* The modules after import, before a caller creates documents.
InitBatches ==
    /\ InitSettingsModule
    /\ InitHelperModule
    /\ InitShellModule
    /\ InitUtilModule

\* A caller enters performWritesInBatches.
PerformWritesInBatches ==
    /\ batching.pc = "idle"
    /\ batching' = [batching EXCEPT !.pc = "for"]
    /\ UNCHANGED <<settingsVars, helperVars, shellVars>>

\* The iterator of `items` yields one more item: the loop body runs on it.
ForOfNext ==
    /\ batching.pc = "for"
    /\ Len(batching.items) < MaxItems
    /\ LET item == Len(batching.items) + 1
       IN  batching' = forBody([batching EXCEPT !.items = Append(@, item)], item)
    /\ UNCHANGED <<settingsVars, helperVars, shellVars>>

\* The iterator of `items` is exhausted: the rest of the function runs.
ForOfDone ==
    /\ batching.pc = "for"
    /\ batching' = commitAll(batching)
    /\ UNCHANGED <<settingsVars, helperVars, shellVars>>

\* The backend acknowledges or refuses the c-th commit.
CommitSettles(c, state) ==
    /\ batching.pc = "returned"
    /\ c \in DOMAIN batching.commits
    /\ batching.commits[c].state = "pending"
    /\ batching' = [batching EXCEPT !.commits[c].state = state]
    /\ UNCHANGED <<settingsVars, helperVars, shellVars>>

\* Promise.all over the commits: fulfilled once every commit is, rejected
\* once one of them is.
PromiseAllSettles ==
    /\ batching.promise = "pending"
    /\ \/ /\ \A c \in DOMAIN batching.commits :
                 batching.commits[c].state = "fulfilled"
          /\ batching' = [batching EXCEPT !.promise = "fulfilled"]
       \/ /\ \E c \in DOMAIN batching.commits :
                 batching.commits[c].state = "rejected"
          /\ batching' = [batching EXCEPT !.promise = "rejected"]
    /\ UNCHANGED <<settingsVars, helperVars, shellVars>>

NextBatches ==
    \/ PerformWritesInBatches
    \/ ForOfNext
    \/ ForOfDone
    \/ \E c \in 1..((MaxItems \div BatchLimit) + 1),
          state \in {"fulfilled", "rejected"} : CommitSettles(c, state)
    \/ PromiseAllSettles

SpecBatches == InitBatches /\ [][NextBatches]_vars

-----------------------------------------------------------------------------
(* Claims about one SettingValue (checked under Spec).                      *)

\* The setting under operation.
Target == settings[1]

\* C1: after any sequence of load(), setValue(v) and save() calls the `value`
\* getter returns the staged value if one is staged, otherwise the loaded
\* value if one is present, otherwise the default; it always returns a value
\* of the setting's type.  (A staged reset stands for the default.)
C1_ValueResolvesPendingLoadedDefault ==
    \A i \in DOMAIN settings :
        LET self == settings[i] IN
        /\ (self._setValue \notin {Null, RESET_TOKEN}
                => value(self) = self._setValue)
        /\ (self._setValue = RESET_TOKEN => value(self) = self.defaultValue)
        /\ (self._setValue = Null /\ self._loadedValue # Null
                => value(self) = self._loadedValue)
        /\ (self._setValue = Null /\ self._loadedValue = Null
                => value(self) = self.defaultValue)
        /\ typeof(value(self)) = typeof(self.defaultValue)

\* C1 witness: load() ran while a value was staged; the loaded value differs
\* from the staged one and from the default, and the staged one is returned.
C1_Witness ==
    /\ lastCall.op = "load"
    /\ Target._setValue \notin {Null, RESET_TOKEN}
    /\ Target._loadedValue \notin
           {Null, Target._setValue, Target.defaultValue}
    /\ value(Target) = Target._setValue

\* C2: isDirty is false on a newly constructed or newly loaded setting, true
\* after setValue() or resetValue(), false after save(), and no other
\* operation (load() in particular) changes it: it holds exactly when a
\* change has been staged and not yet saved.
C2_IsDirtyIffStaged ==
    /\ (lastCall.op = "new" => \A i \in DOMAIN settings : ~isDirty(settings[i]))
    /\ [][
            LET before == isDirty(settings[1])
                after == isDirty(settings'[1])
            IN  /\ lastCall'.op \in {"setValue", "resetValue"} => after
                /\ lastCall'.op = "save" => ~after
                /\ lastCall'.op \in {"load", "apply", "freshLoad"} => after = before
                /\ lastCall'.op = "freshLoad" => ~isDirty(fresh'[1])
       ]_vars

\* C2 witness: load() ran on a setting with a staged reset, found a value in
\* the storage and left the setting dirty.
C2_Witness ==
    /\ lastCall.op = "load"
    /\ Target._setValue = RESET_TOKEN
    /\ isDirty(Target)
    /\ Target._loadedValue # Null

\* C3: save() on a setting with a staged change clears the staged change,
\* makes the loaded layer and the stored text equal to what was staged (both
\* absent after a staged reset), and leaves `value` as it was.
C3_SavePersistsPending ==
    [][
        LET self == settings[1]
            after == settings'[1]
            pending == self._setValue
        IN  lastCall'.op = "save" /\ isDirty(self) =>
                /\ ~isDirty(after)
                /\ after._loadedValue = (IF pending = RESET_TOKEN THEN Null ELSE pending)
                /\ loadValue(after, storage') = after._loadedValue
                /\ (pending = RESET_TOKEN => storageLoad(storage', self.key) = Null)
                /\ value(after) = value(self)
    ]_vars

\* C3 witness: save() ran with a staged boolean; it is now the loaded value,
\* its text is in the storage and nothing is staged.
C3_Witness ==
    /\ lastCall.op = "save"
    /\ lastCall.arg = Bool(TRUE)
    /\ Target._loadedValue = Bool(TRUE)
    /\ storageLoad(storage, Target.key) = Str("true")
    /\ ~isDirty(Target)

\* C4: setValue(v); save(); then load() on a newly constructed setting with
\* the same key over the same storage gives value v, isDirty false and
\* isDefault false, for every v of the setting's type.  (lastCall.arg of a
\* save is the staged v it found.)
C4_RoundTrip ==
    [][
        ( /\ lastCall.op = "save"
          /\ lastCall.arg \notin {Null, RESET_TOKEN}
          /\ lastCall'.op = "freshLoad" )
        => /\ value(fresh'[1]) = lastCall.arg
           /\ ~isDirty(fresh'[1])
           /\ ~isDefault(fresh'[1])
    ]_vars

\* C4 witness: the round trip ran with a text no storage holds initially
\* (the setting's own default), and the new setting reports it as loaded.
C4_Witness ==
    /\ lastCall.op = "freshLoad"
    /\ value(fresh[1]) = PROJECT_ID
    /\ storageLoad(storage, "projectId") = PROJECT_ID
    /\ ~isDefault(fresh[1])
    /\ ~isDirty(fresh[1])

\* C5: resetValue(); save() removes the key from storage: storage.load(key)
\* returns null, isDefault is true, and a newly constructed setting loaded
\* from that storage has the default value.
C5_ResetSaveClearsStorage ==
    /\ [](
           lastCall.op = "save" /\ lastCall.arg = RESET_TOKEN =>
               /\ storageLoad(storage, Target.key) = Null
               /\ isDefault(Target)
               /\ value(Target) = Target.defaultValue
        )
    /\ [][
            ( /\ lastCall.op = "save"
              /\ lastCall.arg = RESET_TOKEN
              /\ lastCall'.op = "freshLoad" )
            => /\ value(fresh'[1]) = Target.defaultValue
               /\ isDefault(fresh'[1])
       ]_vars

\* C5 witness: save() ran with a staged reset: the setting is at its default,
\* the one storage call was clear(key) and the storage has no such key.
C5_Witness ==
    /\ lastCall.op = "save"
    /\ lastCall.arg = RESET_TOKEN
    /\ storageCalls = << Call("clear", Target.key, Null) >>
    /\ storageLoad(storage, Target.key) = Null
    /\ isDefault(Target)

C7_SaveAlwaysWrites ==
    lastCall.op = "save" => storageCalls # << >>

\* C9: loading a boolean setting whose stored text is neither "true" nor
\* "false" throws nothing and leaves the setting not loaded: its value is the
\* default and isDefault is true.
C9_UnparsableBooleanIsNotLoaded ==
    \A i \in DOMAIN settings :
        LET self == settings[i]
            raw == storageLoad(storage, self.key)
        IN  ( /\ typeof(self.defaultValue) = "boolean"
              /\ raw # Null
              /\ raw.s \notin {"true", "false"} )
            => /\ loadValue(self, storage) = Null
               /\ (lastCall.op = "freshLoad" =>
                      /\ value(fresh[1]) = self.defaultValue
                      /\ isDefault(fresh[1]))
               /\ (lastCall.op = "load" /\ ~isDirty(self) =>
                      /\ value(self) = self.defaultValue
                      /\ isDefault(self))

\* C9 witness: a boolean setting was constructed and loaded over a storage
\* holding "yes" under its key.
C9_Witness ==
    /\ lastCall.op = "freshLoad"
    /\ typeof(settings[1].defaultValue) = "boolean"
    /\ storageLoad(storage, settings[1].key) = Str("yes")
    /\ isDefault(fresh[1])
    /\ value(fresh[1]) = Bool(FALSE)

-----------------------------------------------------------------------------
(* Claims about the Settings collection (checked under SpecSettings).       *)

\* The keys of Settings.all in its order.
KeyOrder == [i \in DOMAIN NewSettings |-> NewSettings[i].key]

\* The storage calls of a list that name a key.
CallsOn(calls, key) == SelectSeq(calls, LAMBDA c : c.key = key)

\* C8: saveAll() saves exactly the settings that are dirty when it is called
\* (one storage call each), makes no storage call for any other, returns the
\* saved ones in the order debug-logging, host, project-id, api-key and leaves
\* none dirty; a saveAll() right after a saveAll() returns the empty list.
C8_SaveAllSavesExactlyDirty ==
    [][
        lastCall'.op = "saveAll" =>
            /\ returned' = SelectSeq(KeyOrder,
                   LAMBDA k : \E i \in DOMAIN settings :
                                settings[i].key = k /\ isDirty(settings[i]))
            /\ \A i \in DOMAIN settings :
                 LET self == settings[i]
                     calls == CallsOn(storageCalls', self.key)
                 IN  /\ ~isDirty(settings'[i])
                     /\ IF isDirty(self)
                        THEN /\ Len(calls) = 1
                             /\ calls[1].op = (IF self._setValue = RESET_TOKEN
                                               THEN "clear" ELSE "save")
                             /\ value(settings'[i]) = value(self)
                             /\ loadValue(settings'[i], storage') = settings'[i]._loadedValue
                        ELSE /\ calls = << >>
                             /\ settings'[i] = self
                             /\ storage'[self.key] = storage[self.key]
            /\ Len(storageCalls') = Len(returned')
            /\ (lastCall.op = "saveAll" => returned' = << >> /\ storageCalls' = << >>)
    ]_vars

\* C8 witness: saveAll() ran with the first and the last member dirty, the
\* last one with a staged reset of a stored API key.
C8_Witness ==
    /\ lastCall.op = "saveAll"
    /\ returned = << "debugLogEnabled", "apiKey" >>
    /\ Len(storageCalls) = 2
    /\ storageCalls[2] = Call("clear", "apiKey", Null)
    /\ \A i \in DOMAIN settings : ~isDirty(settings[i])

-----------------------------------------------------------------------------
(* Claims about the browser settings panel (checked under SpecBrowser).     *)

\* C10: setValue() and resetValue(), as called by the panel's change
\* callbacks, only stage a change: they make no storage call and leave the
\* storage and every loaded value as they were; Cancel changes neither the
\* storage nor the settings; only Save writes or clears the storage.
C10_OnlySaveTouchesStorage ==
    [][
        /\ lastCall'.op = "change" =>
                /\ storageCalls' = << >>
                /\ storage' = storage
                /\ \A i \in DOMAIN settings :
                        settings'[i]._loadedValue = settings[i]._loadedValue
        /\ lastCall'.op = "cancel" =>
                /\ storageCalls' = << >>
                /\ storage' = storage
                /\ settings' = settings
        /\ ( \/ storage' # storage
             \/ \E n \in DOMAIN storageCalls' : storageCalls'[n].op \in {"save", "clear"} )
            => lastCall'.op = "save"
    ]_vars

\* C10 witness: a change event staged a project ID and a reset of a stored
\* API key is staged too, while the storage still holds what it held.
C10_Witness ==
    /\ lastCall.op = "change"
    /\ settings[3]._setValue = Str("my-projectId")
    /\ storageLoad(storage, "projectId") = Null
    /\ settings[4]._setValue = RESET_TOKEN
    /\ storageLoad(storage, "apiKey") = Str("my-apiKey")
    /\ settings[4]._loadedValue = Str("my-apiKey")

-----------------------------------------------------------------------------
(* Claims about the instance cache (checked under SpecCache).               *)

\* C11: set(key, obj) on a key whose canonical string is already present
\* throws the duplicate-key error and leaves the cache unchanged; no set ever
\* replaces or removes an entry, so get(key) returns the object given to the
\* first successful set(key, ...); get(key) on a key never inserted returns
\* null; get never throws and never changes the cache.
C11_CacheNeverReplaces ==
    [][
        LET cache == firestoreInstanceCache
            key == lastCall'.arg
            k == canonicalString(key)
        IN  /\ lastCall'.op = "set" =>
                /\ \A s \in DOMAIN cache :
                       s \in DOMAIN firestoreInstanceCache'
                       /\ firestoreInstanceCache'[s] = cache[s]
                /\ IF k \in DOMAIN cache
                   THEN /\ outcome'.kind = "error"
                        /\ outcome'.message = "Entry for " \o k \o " already exists"
                        /\ firestoreInstanceCache' = cache
                   ELSE /\ outcome'.kind = "void"
                        /\ DOMAIN firestoreInstanceCache' = DOMAIN cache \cup {k}
                        /\ \E c \in Callers :
                             /\ callers'[c].pc = "stored"
                             /\ callers'[c].key = key
                             /\ firestoreInstanceCache'[k] = CallerObject(c)
            /\ lastCall'.op = "get" =>
                /\ firestoreInstanceCache' = cache
                /\ outcome'.kind # "error"
                /\ IF k \in DOMAIN cache
                   THEN outcome'.kind = "value" /\ outcome'.value = cache[k]
                   ELSE outcome'.kind = "null" /\ outcome'.value = Null
    ]_vars

\* C11 witness: a set() was refused for a key whose canonical string another
\* key (a different host/project/API key/instance tuple) had put into the
\* cache, and the entry of the first set is still there.
C11_Witness ==
    /\ lastCall.op = "set"
    /\ outcome.kind = "error"
    /\ \E c, d \in Callers :
         /\ callers[c].pc = "failed"
         /\ callers[d].pc = "stored"
         /\ callers[c].key # callers[d].key
         /\ canonicalString(callers[c].key) = canonicalString(callers[d].key)
         /\ get(firestoreInstanceCache, callers[c].key) = CallerObject(d)

\* C12: when two callers both get(key) a miss before either calls set, the
\* first set succeeds and the second throws the duplicate-key error: a caller
\* that sets after its own miss succeeds exactly if nobody has set the key
\* since, otherwise its set throws and changes nothing; the cache keeps the
\* object of the caller whose set succeeded.
C12_SecondSetAfterMissThrows ==
    /\ [](\A c \in Callers :
              callers[c].pc = "stored" =>
                  get(firestoreInstanceCache, callers[c].key) = CallerObject(c))
    /\ [][
           \A d \in Callers :
               LET k == canonicalString(callers[d].key)
               IN  ( /\ callers[d].pc = "missed"
                     /\ callers'[d].pc \in {"stored", "failed"}
                     /\ callers'[d].afterMiss )
                   => IF k \in DOMAIN firestoreInstanceCache
                      THEN /\ callers'[d].pc = "failed"
                           /\ outcome'.kind = "error"
                           /\ outcome'.message = "Entry for " \o k \o " already exists"
                           /\ firestoreInstanceCache' = firestoreInstanceCache
                      ELSE /\ callers'[d].pc = "stored"
                           /\ outcome'.kind = "void"
                           /\ firestoreInstanceCache'[k] = CallerObject(d)
       ]_vars

\* C12 witness: both callers saw a miss for the same key, caller 1 then set
\* it, and the set of caller 2 threw; the cache holds the object of caller 1.
C12_Witness ==
    /\ callers[1] = Caller("stored", callers[2].key, TRUE)
    /\ callers[2].pc = "failed"
    /\ callers[2].afterMiss
    /\ outcome.kind = "error"
    /\ get(firestoreInstanceCache, callers[2].key) = CallerObject(1)

-----------------------------------------------------------------------------
(* Claims about getFirestore and the hash primitives (checked under         *)
(* SpecHelper).                                                             *)

\* C13: for the same settings values (host, project ID, API key), every
\* invocation of getFirestore with the same instance ID (none for the main
\* instance) returned the same Firestore object, and invocations with
\* different instance IDs returned different Firestore objects.
C13_SameInstanceIdSameFirestore ==
    \A a, b \in callers :
        ( /\ a.host = b.host
          /\ a.projectId = b.projectId
          /\ a.apiKey = b.apiKey )
        => (a.instanceId = b.instanceId <=> a.db = b.db)

\* C13 witness: with one set of settings values, getFirestore was invoked
\* for the main instance and with instance ID 1, and now again with instance
\* ID 1: this call found the object cached and returned the one of the
\* earlier call, which is not the main instance's.
C13_Witness ==
    /\ lastCall = Called("getFirestore", Num(1))
    /\ outcome.kind = "value"
    /\ outcome.message = "Using existing Firestore instance"
    /\ \E a, c \in callers :
        /\ a.host = c.host /\ a.projectId = c.projectId /\ a.apiKey = c.apiKey
        /\ a.host = outcome.value.host
        /\ a.projectId = outcome.value.projectId
        /\ a.instanceId = Num(1)
        /\ c.instanceId = Null
        /\ a.db = outcome.value.db
        /\ a.db # c.db

\* C14: setHasher and setBase64Encode succeed when nothing is installed and
\* throw otherwise, and an installed primitive is never replaced; a
\* getFirestore call made while a primitive is missing throws and creates
\* no app, no Firestore object and no cache entry.
C14_PrimitivesInstalledOnce ==
    [][
        /\ lastCall'.op = "setHasher" =>
              IF hasher = Null
              THEN outcome'.kind = "void" /\ hasher' \in {Md5, HasherImpl}
              ELSE outcome'.kind = "error" /\ hasher' = hasher
        /\ lastCall'.op = "setBase64Encode" =>
              IF base64Encode = Null
              THEN outcome'.kind = "void"
                   /\ base64Encode' \in {Btoa, BufferBase64Encode}
              ELSE outcome'.kind = "error" /\ base64Encode' = base64Encode
        /\ hasher # Null => hasher' # Null /\ hasher'.impl = hasher.impl
        /\ base64Encode # Null => base64Encode' = base64Encode
        /\ ( /\ lastCall'.op = "getFirestore"
             /\ (hasher = Null \/ base64Encode = Null) )
           => /\ outcome'.kind = "error"
              /\ sdk' = NoSdkObjects
              /\ firebaseAppCache' = EmptyMap
              /\ firestoreInstanceCache' = EmptyMap
    ]_vars

\* C14 witness: a getFirestore call against the emulator threw because no
\* base64 encoder was installed and left the SDK and the caches empty; then
\* a second setHasher threw and the first hasher is still installed.
C14_Witness ==
    /\ lastCall.op = "setHasher"
    /\ outcome.kind = "error"
    /\ outcome.message = "hasher has already been set"
    /\ hasher # Null
    /\ base64Encode = Null
    /\ debugLogEnabledSettingApplied
    /\ sdk = NoSdkObjects
    /\ firebaseAppCache = EmptyMap
    /\ firestoreInstanceCache = EmptyMap

-----------------------------------------------------------------------------
(* Claims about the derived app name (checked under SpecName).              *)

\* C15: every derivation for the same (host, project ID, API key, instance
\* ID) gave the same name, whatever was derived in between with the shared
\* hasher; two derivations that differ in exactly one of host, project ID
\* and API key (same instance ID) gave different names.
C15_AppNameDeterministic ==
    \A x, y \in callers :
        LET differing == (IF x.key.host # y.key.host THEN 1 ELSE 0)
                       + (IF x.key.projectId # y.key.projectId THEN 1 ELSE 0)
                       + (IF x.key.apiKey # y.key.apiKey THEN 1 ELSE 0)
        IN  /\ x.key = y.key => x.name = y.name
            /\ (differing = 1 /\ x.key.instanceId = y.key.instanceId)
                   => x.name # y.name

\* C15 witness: a name was derived for a key, then for a key that differs
\* in the API key only, then for the first key again (the last derivation),
\* and the two names differ.
C15_Witness ==
    /\ lastCall.op = "appName"
    /\ \E x, y, z \in callers :
         /\ x.key = lastCall.arg /\ ~x.again
         /\ y.key = lastCall.arg /\ y.again
         /\ outcome.value = Str(x.name)
         /\ z.key = [x.key EXCEPT !.apiKey = "b%c"]
         /\ z.key # x.key
         /\ z.name # x.name

-----------------------------------------------------------------------------
(* Claims about cancellation and the runs (checked under SpecShell).        *)

\* C16: a token source starts not cancelled; once its flag is set it stays
\* set, and a cancel() on a source that is already cancelled changes
\* nothing; the flag is written only by the cancel() of cancelTest and
\* runTest, on the current source; a poll after a remote operation lets the
\* run go on exactly when the flag is not set, and ends it with the
\* operation-cancelled condition exactly when it is set.
C16_CancelIdempotentAndMonotone ==
    [][/\ \A s \in DOMAIN sources :
             /\ s \in DOMAIN sources'
             /\ isCancelled(sources[s]) => sources'[s] = sources[s]
             /\ sources'[s] # sources[s]
                    => /\ lastCall'.op \in {"cancelTest", "runTest"}
                       /\ s = cancellationTokenSource
                       /\ sources'[s] = cancel(sources[s])
       /\ \A s \in DOMAIN sources' \ DOMAIN sources :
             /\ ~isCancelled(sources'[s])
             /\ throwIfCancelled(sources'[s]) = Null
       /\ \A r \in DOMAIN runs :
             (runs[r].state = "running" /\ lastCall'.op = "completes"
                  /\ runs'[r] # runs[r])
                 => IF isCancelled(sources[runs[r].source])
                    THEN /\ runs'[r].state = "threw"
                         /\ runs'[r].caught = OperationCancelled
                    ELSE runs'[r].state \in {"running", "completed"}
      ]_vars

\* C16 witness: Cancel Test was clicked twice during the first run, whose
\* source is still the current one, and the run then ended at its next
\* poll with the operation-cancelled condition.
C16_Witness ==
    /\ Len(sources) = 1
    /\ Len(logLines) > 0 /\ logLines[1].run = 1
    /\ Len(SelectSeq(logLines, LAMBDA line : line.run = 0)) = 2
    /\ isCancelled(sources[1])
    /\ runs[1].state = "threw"
    /\ runs[1].caught = OperationCancelled

\* C17: the remote operations a run has issued are always the first ones of
\* create, read, write, read, in that order; a run issues one more only in
\* the step where its operation in flight completes, and only if its token
\* is not cancelled at that poll; a Cancel Test click leaves every run, and
\* so the operation in flight, as it is; once the token is cancelled the
\* run issues nothing more, and a run that has ended issues nothing more.
C17_RemoteOperationsInOrder ==
    /\ [](\A r \in DOMAIN runs :
             /\ Len(runs[r].issued) <= Len(RemoteOperations)
             /\ runs[r].issued = SubSeq(RemoteOperations, 1, Len(runs[r].issued)))
    /\ [][\A r \in DOMAIN runs :
             /\ r \in DOMAIN runs'
             /\ runs'[r].issued # runs[r].issued
                    => /\ lastCall'.op = "completes"
                       /\ runs[r].state = "running"
                       /\ Len(runs'[r].issued) = Len(runs[r].issued) + 1
                       /\ ~isCancelled(sources[runs[r].source])
             /\ lastCall'.op = "cancelTest" => runs'[r] = runs[r]
             /\ isCancelled(sources[runs[r].source])
                    => runs'[r].issued = runs[r].issued
             /\ runs[r].state # "running" => runs'[r] = runs[r]
         ]_vars

\* C17 witness: Cancel Test was clicked while the first getDoc of run 1 was
\* in flight; the getDoc completed (its result was logged after the click)
\* and the run ended at the poll that follows, with setDoc never issued.
C17_Witness ==
    /\ Len(runs) >= 1
    /\ runs[1].issued = << "create", "read" >>
    /\ runs[1].state = "threw"
    /\ runs[1].caught = OperationCancelled
    /\ \E i, j, k \in DOMAIN logLines :
         /\ i < j /\ j < k
         /\ logLines[i] = LogLine(1, "getDoc(doc1)")
         /\ logLines[j] = LogLine(0, "Test cancellation requested")
         /\ logLines[k] = LogLine(1, "getDoc(doc1) returned: ...")

\* C18: at most one run is in progress with a token that is not cancelled;
\* a Run Test click cancels the source made by the previous click, if any,
\* before it makes the new one, the new run is given the new source, and
\* that source is not cancelled whatever was cancelled before.
C18_AtMostOneActiveRun ==
    /\ [](Cardinality({r \in DOMAIN runs :
                           /\ runs[r].state = "running"
                           /\ ~isCancelled(sources[runs[r].source])}) <= 1)
    /\ [][lastCall'.op = "runTest" /\ runs' # runs
             => /\ cancellationTokenSource # 0
                    => isCancelled(sources'[cancellationTokenSource])
                /\ cancellationTokenSource' = Len(sources')
                /\ Len(sources') = Len(sources) + 1
                /\ ~isCancelled(sources'[cancellationTokenSource'])
                /\ runs'[Len(runs')].source = cancellationTokenSource'
                /\ \A r \in DOMAIN runs :
                       runs[r].source # cancellationTokenSource'
         ]_vars

\* C18 witness: the first run ended without its source ever being
\* cancelled, Run Test was clicked again, and the second run is in progress
\* with a source that is not cancelled while the first source now is.
C18_Witness ==
    /\ Len(runs) = 2
    /\ lastCall.op = "runTest"
    /\ Len(SelectSeq(logLines, LAMBDA line : line.run = 0)) = 0
    /\ runs[1].state = "completed"
    /\ isCancelled(sources[runs[1].source])
    /\ runs[2].state = "running"
    /\ ~isCancelled(sources[runs[2].source])

\* The lines prefixed `ERROR:` that run r has logged.
ErrorLines(r) ==
    SelectSeq(logLines,
              LAMBDA line : line.run = r /\ startsWith(line.text, "ERROR:"))

\* C19: a run that ended with something thrown (an Error from getFirestore,
\* an Error or another value from a remote operation) logged exactly one
\* line prefixed `ERROR:`, carrying the message of the Error or the text of
\* the value, and then the closing line of go(); a run that is in progress
\* or completed logged none; a run that has ended stays as it ended and
\* issues nothing again; the Run Test button is enabled exactly when no run
\* is in progress, so it is enabled again whenever go() has finished.
C19_ErrorsCaughtOnceInGo ==
    /\ [](\A r \in DOMAIN runs :
             /\ runs[r].state = "threw"
                    => /\ Len(ErrorLines(r)) = 1
                       /\ ErrorLines(r)[1].text =
                              "ERROR: " \o (IF runs[r].caught.isError
                                            THEN runs[r].caught.message
                                            ELSE runs[r].caught.text)
                       /\ logLines[Len(logLines)].run = r
                              => logLines[Len(logLines)].text = "Test completed in ..."
             /\ runs[r].state # "threw" => Len(ErrorLines(r)) = 0)
    /\ [](runTestButtonEnabled
              <=> \A r \in DOMAIN runs : runs[r].state # "running")
    /\ [][\A r \in DOMAIN runs :
              runs[r].state # "running"
                  => /\ runs'[r] = runs[r]
                     /\ \A n \in DOMAIN logLines' \ DOMAIN logLines :
                            logLines'[n].run # r
         ]_vars

\* C19 witness: the first run ended when a remote operation rejected with
\* an Error, the second when one rejected with a value that is not an
\* Error; each logged its one `ERROR:` line and the button is enabled.
C19_Witness ==
    /\ Len(runs) = 2
    /\ runs[1].state = "threw" /\ runs[1].caught = SdkError
    /\ runs[2].state = "threw" /\ runs[2].caught = NonErrorValue
    /\ ErrorLines(1) = << LogLine(1, "ERROR: unavailable") >>
    /\ ErrorLines(2) = << LogLine(2, "ERROR: rejected") >>
    /\ runTestButtonEnabled

\* C20: a run that ended because throwIfCancelled() signalled cancellation
\* has logged no line prefixed `ERROR:`.
C20_CancellationNotReportedAsError ==
    \A r \in DOMAIN runs :
        (runs[r].state = "threw" /\ runs[r].caught = OperationCancelled)
            => Len(ErrorLines(r)) = 0

-----------------------------------------------------------------------------
(* Claims about getFirestore and its settings (checked under SpecRequests). *)

\* The host and the project ID of the settings loaded from the storage.
LoadedHost == value(SettingsLoad(storage)[2]).s

LoadedProjectId == value(SettingsLoad(storage)[3]).s

LoadedApiKey == value(SettingsLoad(storage)[4]).s

\* C21: a call of getFirestore whose host is not one of prod, emulator,
\* nightly, qa, or whose host is not emulator while the project ID starts
\* with REPLACE_WITH_YOUR_, throws and leaves the SDK's apps and databases,
\* both caches, the applied flag of the debug-log setting and the log level
\* as they were; a call with host emulator does not throw the project-ID
\* error, whatever the project ID.
C21_ConfigurationErrorsFailFast ==
    [][lastCall'.op = "getFirestore" =>
          LET host == LoadedHost'
              projectId == LoadedProjectId'
          IN  /\ (host \notin FirestoreHost
                     \/ (host # "emulator"
                            /\ startsWith(projectId, "REPLACE_WITH_YOUR_")))
                     => /\ outcome'.kind = "error"
                        /\ sdk' = sdk
                        /\ firebaseAppCache' = firebaseAppCache
                        /\ firestoreInstanceCache' = firestoreInstanceCache
                        /\ debugLogEnabledSettingApplied'
                               = debugLogEnabledSettingApplied
                        /\ logLevel' = logLevel
              /\ host = "emulator"
                     => outcome'.message # "The Project ID needs to be set"
      ]_vars

\* C21 witness: getFirestore returned a database for the emulator with the
\* placeholder project ID; a later call with the production host and the
\* placeholder project ID threw, with the cache still holding that entry.
C21_Witness ==
    /\ lastCall.op = "getFirestore"
    /\ LoadedHost = "prod"
    /\ startsWith(LoadedProjectId, "REPLACE_WITH_YOUR_")
    /\ outcome.kind = "error"
    /\ outcome.message = "The Project ID needs to be set"
    /\ \E x \in callers :
         /\ x.host = "emulator"
         /\ x.projectId = PROJECT_ID.s
    /\ DOMAIN firestoreInstanceCache # {}

\* C22: a call of getFirestore with host prod, nightly or qa and an API key
\* that starts with REPLACE_WITH_YOUR_ throws.
C22_PlaceholderApiKeyRejected ==
    (/\ lastCall.op = "getFirestore"
     /\ LoadedHost \in FirestoreHost \ {"emulator"}
     /\ startsWith(LoadedApiKey, "REPLACE_WITH_YOUR_"))
        => outcome.kind = "error"

\* C24: the FirestoreInfo a call of getFirestore returns describes the
\* host, project ID and API key the call was made with, and no two calls
\* that differ in host, project ID, API key or instance ID were given the
\* same Firestore object.
C24_ReturnedInstanceIsForRequestedKey ==
    /\ (lastCall.op = "getFirestore" /\ outcome.kind = "value")
           => /\ outcome.value.host = LoadedHost
              /\ outcome.value.projectId = LoadedProjectId
              /\ outcome.value.apiKey = LoadedApiKey
    /\ \A x, y \in callers :
           x.db = y.db
               => /\ x.host = y.host
                  /\ x.projectId = y.projectId
                  /\ x.apiKey = y.apiKey
                  /\ x.instanceId = y.instanceId

\* C25: no call of getFirestore ends with the duplicate-key error of a
\* cache ("Entry for ... already exists"), whatever calls came before and
\* wherever they threw, and every key of the Firestore cache is a key of
\* the app cache.
C25_NoDuplicateSetInGetFirestore ==
    /\ ~startsWith(outcome.message, "Entry for ")
    /\ DOMAIN firestoreInstanceCache \subseteq DOMAIN firebaseAppCache

\* C25 witness: a call of getFirestore found the app of its key in the app
\* cache but no Firestore in the Firestore cache (an earlier call for the
\* key threw after it had cached the app), built the Firestore and cached
\* it.
C25_Witness ==
    /\ lastCall.op = "getFirestore"
    /\ outcome.kind = "value"
    /\ outcome.message = "Using existing FirebaseApp instance"
    /\ get(firestoreInstanceCache,
           FirebaseObjectCacheKey(LoadedHost, LoadedProjectId, LoadedApiKey,
                                  lastCall.arg)) # Null

-----------------------------------------------------------------------------
(* Claims about the Node.js command line (checked under SpecNode).          *)

\* The options of `names` that argv gives, with any value.
Given(names, argv) == {n \in DOMAIN names : argv[names[n]] # Undefined}

\* C23: for every assignment of the six boolean options, argument parsing
\* fails exactly when more than one of prod, emulator, nightly, qa is given
\* or both quiet and debug are given; the error names the group and the
\* options given; and when it fails the settings stay as they were, no app
\* or Firestore is made, the caches stay empty and no remote operation is
\* issued.
C23_ParsingFailsOnConflictingFlags ==
    [][lastCall'.op = "go" =>
          LET argv == lastCall'.arg
              conflict == \/ Cardinality(Given(HostFlags, argv)) > 1
                          \/ Cardinality(Given(LoggingFlags, argv)) > 1
          IN  /\ conflict <=> outcome'.op = "parseArgs"
              /\ outcome'.op = "parseArgs"
                     => /\ outcome'.kind = "error"
                        /\ startsWith(outcome'.message, "at most one of ")
                        /\ settings' = settings
                        /\ sdk' = NoSdkObjects
                        /\ firebaseAppCache' = EmptyMap
                        /\ firestoreInstanceCache' = EmptyMap
                        /\ runs' = << >>
                        /\ logLines' = << >>
      ]_vars

\* C23 witness: the command line gave --emulator (one host only) together
\* with --quiet and --debug; parsing failed naming the two, and nothing was
\* started.
C23_Witness ==
    /\ lastCall.op = "go"
    /\ Cardinality(Given(HostFlags, lastCall.arg)) = 1
    /\ lastCall.arg.emulator = Bool(TRUE)
    /\ outcome.op = "parseArgs"
    /\ outcome.message =
           "at most one of debug, quiet may be set, but got: debug, quiet"
    /\ runs = << >>
    /\ sdk = NoSdkObjects

\* C30: when parsing succeeded, a host is staged exactly if its option is
\* true, true is staged for debug logging exactly if --debug is true, and
\* false exactly if --quiet is true.
C30_OnlyTrueFlagsAreStaged ==
    (lastCall.op = "go" /\ outcome.op # "parseArgs")
        => LET argv == lastCall.arg
           IN  /\ \A n \in DOMAIN HostFlags :
                      settings[2]._setValue = Str(HostFlags[n])
                          <=> argv[HostFlags[n]] = Bool(TRUE)
               /\ settings[1]._setValue = Bool(TRUE) <=> argv.debug = Bool(TRUE)
               /\ settings[1]._setValue = Bool(FALSE) <=> argv.quiet = Bool(TRUE)

-----------------------------------------------------------------------------
(* Claims about panel sessions (checked under SpecBrowser).                 *)

\* C26: a Save clicked right after the settings panel was opened, with no
\* change made in that session, writes nothing to the storage, whatever
\* was staged in earlier sessions that were closed with Cancel.
C26_SavePersistsOnlyThisSession ==
    [][(lastCall.op = "showSettings" /\ lastCall'.op = "save")
           => storage' = storage]_vars

-----------------------------------------------------------------------------
(* Claims about the applied log level (checked under SpecSettings).         *)

\* C27: when saveAll() saves a dirty debug-logging setting, the log level
\* in force afterwards is 'debug' if the setting's value is then true, and
\* 'info' (the level set, or the SDK's level when none was ever set) if it
\* is false.
C27_LogLevelFollowsSavedValue ==
    [][(lastCall'.op = "saveAll" /\ isDirty(settings[1]))
           => IF value(settings'[1]).b
              THEN logLevel' = "debug"
              ELSE logLevel' \in {"info", "unset"}]_vars

-----------------------------------------------------------------------------
(* Claims about the Cancel Test button (checked under SpecShell).           *)

\* C28: when a run has been started and no run is in progress any more,
\* the Cancel Test button is disabled.
C28_CancelButtonOnlyWhileRunning ==
    (Len(runs) > 0 /\ \A r \in DOMAIN runs : runs[r].state # "running")
        => ~cancelTestButtonEnabled

\* C29: performWritesInBatches calls the callback exactly once per item, in
\* list order; no batch receives more than 500 writes and none is empty;
\* n items give ceil(n / 500) batches; every write went to a batch that is
\* committed and every batch is committed exactly once; the returned promise
\* settles only after a commit was issued on every batch, and is fulfilled
\* only when all of them were.
C29_BatchedWrites ==
    batching.pc = "returned" =>
        LET n == Len(batching.items)
            pushed == {batching.writeBatches[k] : k \in DOMAIN batching.writeBatches}
            Writes(b) == Cardinality({i \in DOMAIN batching.calls :
                                         batching.calls[i].batch = b})
            Commits(b) == Cardinality({c \in DOMAIN batching.commits :
                                          batching.commits[c].batch = b})
        IN  /\ Len(batching.calls) = n
            /\ \A i \in 1..n : batching.calls[i].item = batching.items[i]
            /\ Len(batching.writeBatches) = (n + BatchLimit - 1) \div BatchLimit
            /\ Cardinality(pushed) = Len(batching.writeBatches)
            /\ \A b \in pushed : Writes(b) \in 1..BatchLimit
            /\ \A i \in 1..n : batching.calls[i].batch \in pushed
            /\ \A b \in pushed : Commits(b) = 1
            /\ \A c \in DOMAIN batching.commits : batching.commits[c].batch \in pushed
            /\ batching.promise = "fulfilled" =>
                   \A c \in DOMAIN batching.commits :
                       batching.commits[c].state = "fulfilled"

\* C29 witness: 1001 items went into three batches, the last of them holding
\* one write, and the promise was fulfilled after the three commits.
C29_Witness ==
    /\ Len(batching.items) = 2 * BatchLimit + 1
    /\ Len(batching.writeBatches) = 3
    /\ batching.calls[2 * BatchLimit + 1].batch = batching.writeBatches[3]
    /\ batching.promise = "fulfilled"

====
